---- MODULE Spec2Model ----
(***************************************************************************)
(* Tenant provisioning and credential consistency of the POS scripts.      *)
(*                                                                         *)
(* The document store (Firestore) is modelled as one variable per          *)
(* collection: a collection is a function from the ids of the documents    *)
(* that exist to their field dictionaries, a dictionary is a function from *)
(* field names to values.  Subcollections (tenants/{id}/users, ...) are    *)
(* kept per tenant id and exist independently of the tenant root document, *)
(* as they do in the store.                                                *)
(*                                                                         *)
(* Secrets (passwords, PINs, digests) are sequences of ASCII codes, so     *)
(* that their length and alphabet are what the scripts test.  Every other  *)
(* string (ids, emails, roles) is only ever compared and is a TLA+ string. *)
(***************************************************************************)
EXTENDS Integers, Sequences, FiniteSets, TLC

VARIABLES
    restaurants,         \* collection restaurants/{id}
    global_restaurants,  \* collection global_restaurants/{id}
    tenants,             \* collection tenants/{id} (root documents)
    users,               \* tenants/{id}/users/{docId}, per tenant id
    categories,          \* tenants/{id}/categories/{docId}, per tenant id
    menu_items,          \* tenants/{id}/menu_items/{docId}, per tenant id
    orders,              \* tenants/{id}/orders/{docId}, per tenant id
    runs,                \* history: the scripts run so far, oldest first, and
                         \* whether each changed the store
    report,              \* per restaurant id, what the last script run printed
    login,               \* the last login check and what it printed
    initial,             \* history: the store as the first script found it
    cleanup,             \* the cleanup_test_data call in progress, if any
    order_items,         \* tenants/{id}/orders/{orderId}/items/{itemId}, per
                         \* <<tenant id, order id>>
    conc                 \* the script runs in progress at the same time: for
                         \* each its position and what it has read

storeVars ==
    <<restaurants, global_restaurants, tenants, users, categories, menu_items, orders,
      order_items>>
vars == <<restaurants, global_restaurants, tenants, users, categories, menu_items,
          orders, runs, report, login, initial, cleanup, order_items, conc>>

-----------------------------------------------------------------------------
(* Bounds and program constants *)

\* Longest history of script runs that is explored.
MaxRuns == 4

\* The number of script runs in a behaviour that draws on all five fix scripts.
MaxFixRuns == 3

\* The number of script runs in a behaviour in which a store call may raise.
MaxFailRuns == 2

\* The number of provisioning, seeding and repair runs from the empty store.
MaxProvisionRuns == 4

\* Runs of the registration tests and their cleanups in one behaviour.
MaxCleanupRuns == 3

\* Script runs in progress at the same time.
MaxConcRuns == 2

\* Runs of schema creation, repair and clearing in one behaviour.
MaxClearRuns == 4

\* len(...) < 64: the length of a SHA-256 hexdigest.
DigestLen == 64

-----------------------------------------------------------------------------
(* Python helpers *)

\* dict.get(field, default)
Get(doc, field, default) == IF field \in DOMAIN doc THEN doc[field] ELSE default

\* doc[field] = value
With(doc, field, value) ==
    [f \in (DOMAIN doc) \cup {field} |-> IF f = field THEN value ELSE doc[f]]

\* document(id).set(fields, merge=True) and document(id).update(fields) on an
\* existing document: the fields given replace, the others stay.
Merge(doc, fields) ==
    [f \in (DOMAIN doc) \cup (DOMAIN fields) |->
        IF f \in DOMAIN fields THEN fields[f] ELSE doc[f]]

\* collection.document(id).set(doc): create or overwrite.
SetDoc(coll, id, doc) ==
    [d \in (DOMAIN coll) \cup {id} |-> IF d = id THEN doc ELSE coll[d]]

\* collection.document(id).set(fields, merge=True): create or merge.
SetMerge(coll, id, fields) ==
    SetDoc(coll, id, IF id \in DOMAIN coll THEN Merge(coll[id], fields) ELSE fields)

\* str.startswith(prefix)
StartsWith(s, prefix) ==
    /\ Len(s) >= Len(prefix)
    /\ SubSeq(s, 1, Len(prefix)) = prefix

\* str.replace(old, ''): every non-overlapping occurrence, left to right.
RECURSIVE RemoveAll(_, _)
RemoveAll(s, old) ==
    IF Len(s) < Len(old) THEN s
    ELSE IF SubSeq(s, 1, Len(old)) = old
         THEN RemoveAll(SubSeq(s, Len(old) + 1, Len(s)), old)
         ELSE <<Head(s)>> \o RemoveAll(Tail(s), old)

-----------------------------------------------------------------------------
(* Credential codec *)

\* '0'..'9' and 'a'..'f', the alphabet of hexdigest().
HexChars == (48..57) \cup (97..102)

HexDigit(n) == IF n < 10 THEN 48 + n ELSE 87 + n

\* The input folded into one number: a position-weighted sum of its
\* characters, split in halves so that the evaluation stays shallow.
RECURSIVE Absorb(_, _, _)
Absorb(s, lo, hi) ==
    IF lo > hi THEN 0
    ELSE IF lo = hi THEN (s[lo] * (lo * lo + 3 * lo + 7)) % 1000003
    ELSE LET mid == (lo + hi) \div 2
         IN  (Absorb(s, lo, mid) + Absorb(s, mid + 1, hi)) % 1000003

\* hashlib.sha256(password.encode()).hexdigest(): a deterministic digest of
\* DigestLen lowercase hex characters.  The compression function is replaced
\* by a fold of the input; the digest is computed from the input, and two
\* inputs have the same digest only if the fold collides.
hash_password(password) ==
    LET h == Absorb(password, 1, Len(password)) + 7 * Len(password) + 1
    IN  [i \in 1..DigestLen |->
            HexDigit((((h + i) * (2 * i + 13)) + (h \div i)) % 16)]

\* Off by one: a digest itself would count as plain text.
LikelyPlainText_OffByOne(stored) == stored # <<>> /\ Len(stored) <= DigestLen

\* "if current_password and len(current_password) < 64:  # Likely plain text"
LikelyPlainText(stored) == stored # <<>> /\ Len(stored) < DigestLen

-----------------------------------------------------------------------------
(* Secrets and ids of the model *)

S_admin123 == <<97, 100, 109, 105, 110, 49, 50, 51>>      \* "admin123"
S_test123  == <<116, 101, 115, 116, 49, 50, 51>>          \* "test123"
S_1234     == <<49, 50, 51, 52>>                          \* "1234"
S_1111     == <<49, 49, 49, 49>>                          \* "1111"
S_2222     == <<50, 50, 50, 50>>                          \* "2222"
S_9999     == <<57, 57, 57, 57>>                          \* "9999"
S_3333     == <<51, 51, 51, 51>>                          \* "3333"
S_hashed_  == <<104, 97, 115, 104, 101, 100, 95>>         \* "hashed_"

\* A passphrase of DigestLen + 1 letters 'p', and one of DigestLen letters 'z'.
S_long     == [i \in 1..(DigestLen + 1) |-> 112]
S_zzz      == [i \in 1..DigestLen |-> 122]

DemoId == "default-restaurant"
DemoEmail == "demo@restaurant.com"
RestId == "rest-1"
RestEmail == "owner@x.com"
OrphanId == "orphan-1"

RestaurantIds == {RestId, DemoId}
TenantIds == {RestId, DemoId, OrphanId}

\* A second restaurant registered under the email of the first
\* (verify_restaurant_sync.py create_test_restaurant takes any email).
DupId == "rest-2"
LoginTenantIds == TenantIds \cup {DupId}

\* An email as typed, with capitals, and str.lower() on the emails of the
\* model.
RestEmailTyped == "Owner@X.com"
GoneEmail == "gone@x.com"
Lower(email) == IF email = RestEmailTyped THEN RestEmail ELSE email

EmptyColl == <<>>

-----------------------------------------------------------------------------
(* Documents *)

\* A restaurants/{id} document as the registration flow writes it
\* (force_firebase_auth_setup.py, test_registration_with_firebase.py).
RestaurantDoc(id, email, adminUserId, adminPassword, isActive) ==
    [id |-> id, email |-> email, adminUserId |-> adminUserId,
     adminPassword |-> adminPassword, isActive |-> isActive]

\* The same document without an adminPassword field.
RestaurantDocNoPassword(id, email, adminUserId, isActive) ==
    [id |-> id, email |-> email, adminUserId |-> adminUserId, isActive |-> isActive]

\* A tenants/{id}/users/{id} document as registration writes it.
UserDoc(id, role, pin) ==
    [id |-> id, name |-> id, role |-> role, pin |-> pin,
     isActive |-> TRUE, adminPanelAccess |-> (role = "admin")]

\* The tenants/{id} root document (fix_restaurant_credentials.py 55-60).
TenantDoc(id, ts) ==
    [id |-> id, restaurantId |-> id, createdAt |-> ts, updatedAt |-> ts]

\* firestore.SERVER_TIMESTAMP: the logical time of the run that writes it.
ServerTimestamp == Len(runs) + 1

-----------------------------------------------------------------------------
(* Initial store: what registration and seeding left behind *)

InitPasswords ==
    {<<>>, S_admin123, hash_password(S_admin123), S_hashed_ \o S_admin123,
     S_long, S_zzz}

InitAdminUserIds == {"admin", "owner"}

InitUsers ==
    {EmptyColl,
     "admin" :> UserDoc("admin", "admin", S_1234),
     "admin" :> UserDoc("admin", "admin", hash_password(S_1234)),
     ("admin" :> UserDoc("admin", "admin", hash_password(S_1234)))
        @@ ("cashier1" :> UserDoc("cashier1", "cashier", S_1111))}

InitDemoUsers ==
    {EmptyColl, "admin" :> UserDoc("admin", "admin", hash_password(S_9999))}

InitOrphanUsers ==
    {EmptyColl, "cashier1" :> UserDoc("cashier1", "cashier", S_1111)}

InitStore ==
    \E pw \in InitPasswords, uid \in InitAdminUserIds, active \in {TRUE},
       root \in BOOLEAN, us \in InitUsers,
       demo \in BOOLEAN, dpw \in {S_admin123, hash_password(S_admin123)},
       droot \in BOOLEAN, dus \in InitDemoUsers, ous \in InitOrphanUsers :
        /\ ~demo => (dpw = S_admin123 /\ ~droot /\ dus = EmptyColl)
        /\ restaurants =
              (RestId :> (IF pw = <<>>
                          THEN RestaurantDocNoPassword(RestId, RestEmail, uid, active)
                          ELSE RestaurantDoc(RestId, RestEmail, uid, pw, active)))
              @@ (IF demo
                  THEN DemoId :> RestaurantDoc(DemoId, DemoEmail, "admin", dpw, TRUE)
                  ELSE EmptyColl)
        /\ global_restaurants = EmptyColl
        /\ tenants =
              (IF root THEN RestId :> TenantDoc(RestId, 0) ELSE EmptyColl)
              @@ (IF droot THEN DemoId :> TenantDoc(DemoId, 0) ELSE EmptyColl)
              @@ (IF ous # EmptyColl THEN OrphanId :> TenantDoc(OrphanId, 0) ELSE EmptyColl)
        /\ users = (RestId :> us) @@ (DemoId :> dus) @@ (OrphanId :> ous)
        /\ categories = [t \in TenantIds |-> EmptyColl]
        /\ menu_items = [t \in TenantIds |-> EmptyColl]
        /\ orders = [t \in TenantIds |-> EmptyColl]
        /\ order_items = EmptyColl

\* What a login check is given.
LoginEmails == {RestEmail, RestEmailTyped, GoneEmail, "nobody@x.com"}
LoginUserIds == {"admin", "owner"}
LoginPasswords == {S_admin123, hash_password(S_admin123), S_test123}
LoginPins == {S_1234, S_9999, hash_password(S_1234)}

\* The activity flag of a restaurant document, under the field name isActive
\* (force_firebase_auth_setup.py 198) and, where the snake-case schema was
\* written too, is_active (create_firebase_schema.py 45).
WithActivity(doc, active, snake) ==
    IF snake THEN With(With(doc, "isActive", active), "is_active", active)
    ELSE With(doc, "isActive", active)

InitLoginUsers ==
    {"admin" :> UserDoc("admin", "admin", S_1234),
     ("admin" :> UserDoc("admin", "admin", hash_password(S_1234)))
        @@ ("cashier1" :> UserDoc("cashier1", "cashier", S_1111)),
     "admin" :> With(UserDoc("admin", "admin", S_1234), "isActive", FALSE)}

\* The store a login check finds: one restaurant, active or not, and
\* possibly a second one registered under the same email; where there is no
\* second one, the index still holds the entry of a restaurant whose
\* restaurants document is gone.
InitLoginStore ==
    \E pw \in {S_admin123, hash_password(S_admin123)}, uid \in InitAdminUserIds,
       active \in BOOLEAN, snake \in BOOLEAN, root \in BOOLEAN,
       us \in InitLoginUsers, dup \in BOOLEAN :
        /\ restaurants =
              (RestId :> WithActivity(RestaurantDoc(RestId, RestEmail, uid, pw, TRUE),
                                      active, snake))
              @@ (IF dup
                  THEN DupId :> RestaurantDoc(DupId, RestEmail, "admin", S_test123, TRUE)
                  ELSE EmptyColl)
        /\ global_restaurants =
              restaurants
              @@ (DupId :> RestaurantDoc(DupId, GoneEmail, "admin", S_test123, TRUE))
        /\ tenants = (IF root THEN RestId :> TenantDoc(RestId, 0) ELSE EmptyColl)
        /\ users = (RestId :> us) @@ [t \in LoginTenantIds \ {RestId} |-> EmptyColl]
        /\ categories = [t \in LoginTenantIds |-> EmptyColl]
        /\ menu_items = [t \in LoginTenantIds |-> EmptyColl]
        /\ orders = [t \in LoginTenantIds |-> EmptyColl]
        /\ order_items = EmptyColl

\* No login check has been made yet.
NoLogin == [script |-> "none"]

\* No cleanup_test_data call is in progress.
NoCleanup == [script |-> "none"]

\* No script runs at the same time as another.
NoConc == <<>>

InitHistory ==
    /\ runs = <<>>
    /\ report = EmptyColl
    /\ login = NoLogin
    /\ cleanup = NoCleanup
    /\ conc = NoConc
    /\ initial = [restaurants |-> restaurants, tenants |-> tenants, users |-> users]

Init ==
    /\ InitStore
    /\ InitHistory

InitLogin ==
    /\ InitLoginStore
    /\ InitHistory

-----------------------------------------------------------------------------
(* History *)

\* One more script has run to completion; the history notes whether the store
\* it leaves differs from the store it found.
Ran(script) ==
    runs' = Append(runs, [script |-> script, changed |-> (storeVars' # storeVars)])

-----------------------------------------------------------------------------
(* fix_password_hashing.py *)

\* Lines 40-47: hash the admin password if it looks like plain text.
FPH_Restaurant(restaurant_data) ==
    LET current_password == Get(restaurant_data, "adminPassword", <<>>)
    IN  IF LikelyPlainText(current_password)
        THEN With(restaurant_data, "adminPassword", hash_password(current_password))
        ELSE restaurant_data

\* Lines 59-69: hash the PIN if it looks like plain text.
FPH_User(user_data) ==
    LET current_pin == Get(user_data, "pin", <<>>)
    IN  IF LikelyPlainText(current_pin)
        THEN With(user_data, "pin", hash_password(current_pin))
        ELSE user_data

\* The "Hashed ..." lines printed for one restaurant: was anything migrated?
FPH_Report(r) ==
    IF \/ LikelyPlainText(Get(restaurants[r], "adminPassword", <<>>))
       \/ \E u \in DOMAIN users[r] : LikelyPlainText(Get(users[r][u], "pin", <<>>))
    THEN "Repaired" ELSE "Unchanged"

\* main(): every restaurant document is rewritten, then every user document
\* under the tenant with the restaurant's id.
FixPasswordHashing ==
    /\ Len(runs) < MaxRuns
    /\ restaurants' = [r \in DOMAIN restaurants |-> FPH_Restaurant(restaurants[r])]
    /\ users' = [t \in DOMAIN users |->
                    IF t \in DOMAIN restaurants
                    THEN [u \in DOMAIN users[t] |-> FPH_User(users[t][u])]
                    ELSE users[t]]
    /\ report' = [r \in DOMAIN restaurants |-> FPH_Report(r)]
    /\ UNCHANGED <<global_restaurants, tenants, categories, menu_items, login, initial,
                   order_items, conc, cleanup, orders>>
    /\ Ran("fix_password_hashing")

-----------------------------------------------------------------------------
(* fix_restaurant_credentials.py *)

\* Lines 67-76 and 126-135: the admin user written for a restaurant.
FRC_AdminUser(restaurant_data, ts) ==
    [id |-> Get(restaurant_data, "adminUserId", "admin"),
     name |-> "Admin",
     role |-> "admin",
     pin |-> hash_password(Get(restaurant_data, "adminPassword", S_admin123)),
     isActive |-> TRUE,
     adminPanelAccess |-> TRUE,
     createdAt |-> ts,
     lastLogin |-> "None"]

\* Lines 81-91: the sample categories cat_1 .. cat_4.
FRC_Categories ==
    ("cat_1" :> [name |-> "Appetizers", description |-> "Starters and appetizers",
                 isActive |-> TRUE, sortOrder |-> 1, id |-> "cat_1"])
    @@ ("cat_2" :> [name |-> "Main Course", description |-> "Main dishes",
                    isActive |-> TRUE, sortOrder |-> 2, id |-> "cat_2"])
    @@ ("cat_3" :> [name |-> "Desserts", description |-> "Sweet treats",
                    isActive |-> TRUE, sortOrder |-> 3, id |-> "cat_3"])
    @@ ("cat_4" :> [name |-> "Beverages", description |-> "Drinks and beverages",
                    isActive |-> TRUE, sortOrder |-> 4, id |-> "cat_4"])

\* Lines 94-105: the sample menu items item_1 .. item_5.
FRC_MenuItems ==
    ("item_1" :> [name |-> "Bruschetta", categoryId |-> "cat_1",
                  isAvailable |-> TRUE, id |-> "item_1"])
    @@ ("item_2" :> [name |-> "Margherita Pizza", categoryId |-> "cat_2",
                     isAvailable |-> TRUE, id |-> "item_2"])
    @@ ("item_3" :> [name |-> "Chicken Alfredo", categoryId |-> "cat_2",
                     isAvailable |-> TRUE, id |-> "item_3"])
    @@ ("item_4" :> [name |-> "Tiramisu", categoryId |-> "cat_3",
                     isAvailable |-> TRUE, id |-> "item_4"])
    @@ ("item_5" :> [name |-> "Iced Latte", categoryId |-> "cat_4",
                     isAvailable |-> TRUE, id |-> "item_5"])

\* Line 51: "if not tenant_doc.exists".
FRC_TenantMissing(r) == r \notin DOMAIN tenants

\* Lines 119-122: the tenant exists and has no document for the admin user.
FRC_AdminMissing(r) ==
    /\ ~FRC_TenantMissing(r)
    /\ Get(restaurants[r], "adminUserId", "admin") \notin DOMAIN users[r]

\* Lines 78 and 137: the users subcollection of restaurant r after its turn.
FRC_Users(r) ==
    IF FRC_TenantMissing(r) \/ FRC_AdminMissing(r)
    THEN SetDoc(users[r], Get(restaurants[r], "adminUserId", "admin"),
                FRC_AdminUser(restaurants[r], ServerTimestamp))
    ELSE users[r]

\* "fixed_count += 1" (lines 114, 139) for restaurant r.
FRC_Report(r) ==
    IF FRC_TenantMissing(r) \/ FRC_AdminMissing(r) THEN "Repaired" ELSE "Unchanged"

\* main(): for every restaurant, create the missing tenant structure, or the
\* missing admin user of an existing tenant.
FixRestaurantCredentials ==
    /\ Len(runs) < MaxRuns
    /\ tenants' = [t \in (DOMAIN tenants) \cup (DOMAIN restaurants) |->
                      IF t \in DOMAIN tenants THEN tenants[t]
                      ELSE TenantDoc(t, ServerTimestamp)]
    /\ users' = [t \in DOMAIN users |->
                    IF t \in DOMAIN restaurants THEN FRC_Users(t) ELSE users[t]]
    /\ categories' = [t \in DOMAIN categories |->
                         IF t \in DOMAIN restaurants /\ FRC_TenantMissing(t)
                         THEN FRC_Categories @@ categories[t] ELSE categories[t]]
    /\ menu_items' = [t \in DOMAIN menu_items |->
                         IF t \in DOMAIN restaurants /\ FRC_TenantMissing(t)
                         THEN FRC_MenuItems @@ menu_items[t] ELSE menu_items[t]]
    /\ report' = [r \in DOMAIN restaurants |-> FRC_Report(r)]
    /\ UNCHANGED <<restaurants, global_restaurants, login, initial,
                   order_items, conc, cleanup, orders>>
    /\ Ran("fix_restaurant_credentials")

-----------------------------------------------------------------------------
(* fix_login_data_consistency.py *)

\* Lines 42-60: strip a 'hashed_' prefix, or set the default password.
FLDC_Restaurant(data) ==
    LET admin_password == Get(data, "adminPassword", <<>>)
    IN  IF StartsWith(admin_password, S_hashed_)
        THEN Merge(data, [adminPassword |-> RemoveAll(admin_password, S_hashed_)])
        ELSE IF admin_password = <<>>
        THEN Merge(data, [adminPassword |-> S_admin123])
        ELSE data

\* Lines 82-83: "if pin and not pin.startswith('hashed_') and len(pin) < 64".
FLDC_PlainPin(pin) ==
    pin # <<>> /\ ~StartsWith(pin, S_hashed_) /\ Len(pin) < DigestLen

\* Lines 73-91: add the userId field, hash a plain text PIN, write back.
FLDC_User(user_id, user_data) ==
    LET with_id == IF "userId" \in DOMAIN user_data THEN user_data
                   ELSE With(user_data, "userId", user_id)
        pin == Get(with_id, "pin", <<>>)
    IN  IF FLDC_PlainPin(pin) THEN With(with_id, "pin", hash_password(pin))
        ELSE with_id

\* Lines 97-103: the demo restaurant.
FLDC_DemoRestaurant ==
    [name |-> "Demo Restaurant", email |-> DemoEmail, adminUserId |-> "admin",
     adminPassword |-> S_admin123, isActive |-> TRUE]

\* Lines 119-147: the demo users.
FLDC_DemoUser(id, name, role, pin, access) ==
    [id |-> id, userId |-> id, name |-> name, role |-> role,
     pin |-> hash_password(pin), isActive |-> TRUE, adminPanelAccess |-> access]

FLDC_DemoUsers ==
    ("admin" :> FLDC_DemoUser("admin", "Admin User", "admin", S_1234, TRUE))
    @@ ("cashier1" :> FLDC_DemoUser("cashier1", "Cashier One", "cashier", S_1111, FALSE))
    @@ ("manager1" :> FLDC_DemoUser("manager1", "Manager One", "manager", S_2222, TRUE))

\* Lines 62-91: the users of every tenant that has a root document.
FLDC_TenantUsers(us) ==
    [t \in DOMAIN us |->
        IF t \in DOMAIN tenants
        THEN [u \in DOMAIN us[t] |-> FLDC_User(u, us[t][u])]
        ELSE us[t]]

\* main(): fix the restaurants, fix the users of every tenant, then write the
\* demo restaurant, its index entry, its tenant and its users with merge=True.
FixLoginDataConsistency ==
    LET fixed == [r \in DOMAIN restaurants |-> FLDC_Restaurant(restaurants[r])]
        fixedUsers == FLDC_TenantUsers(users)
        demoUsers == [u \in (DOMAIN fixedUsers[DemoId]) \cup (DOMAIN FLDC_DemoUsers) |->
                         IF u \in DOMAIN FLDC_DemoUsers
                         THEN SetMerge(fixedUsers[DemoId], u, FLDC_DemoUsers[u])[u]
                         ELSE fixedUsers[DemoId][u]]
    IN  /\ Len(runs) < MaxRuns
        /\ restaurants' = SetMerge(fixed, DemoId, FLDC_DemoRestaurant)
        /\ global_restaurants' = SetMerge(global_restaurants, DemoId, FLDC_DemoRestaurant)
        /\ tenants' = SetMerge(tenants, DemoId, TenantDoc(DemoId, ServerTimestamp))
        /\ users' = [fixedUsers EXCEPT ![DemoId] = demoUsers]
        /\ report' = EmptyColl
        /\ UNCHANGED <<categories, menu_items, login, initial,
                   order_items, conc, cleanup, orders>>
        /\ Ran("fix_login_data_consistency")

-----------------------------------------------------------------------------
(* fix_all_credentials.py and fix_login_credentials.py *)

\* Lines 40-42 (both scripts): the admin credentials are reset.
FAC_Restaurant(restaurant_data) ==
    With(With(restaurant_data, "adminPassword", S_admin123), "adminUserId", "admin")

\* Lines 54-71 (fix_all_credentials.py), 58-75 (fix_login_credentials.py):
\* the PINs of the users named admin, cashier1 and manager1 are reset.
FAC_User(user_data) ==
    LET user_id == Get(user_data, "id", "")
    IN  IF user_id = "admin" THEN With(user_data, "pin", S_1234)
        ELSE IF user_id = "cashier1" THEN With(user_data, "pin", S_1111)
        ELSE IF user_id = "manager1" THEN With(user_data, "pin", S_2222)
        ELSE user_data

\* fix_all_credentials.py main(): every restaurant and its users.
FixAllCredentials ==
    /\ Len(runs) < MaxRuns
    /\ restaurants' = [r \in DOMAIN restaurants |-> FAC_Restaurant(restaurants[r])]
    /\ users' = [t \in DOMAIN users |->
                    IF t \in DOMAIN restaurants
                    THEN [u \in DOMAIN users[t] |-> FAC_User(users[t][u])]
                    ELSE users[t]]
    /\ report' = EmptyColl
    /\ UNCHANGED <<global_restaurants, tenants, categories, menu_items, login, initial,
                   order_items, conc, cleanup, orders>>
    /\ Ran("fix_all_credentials")

\* fix_login_credentials.py line 31: where('email', '==', demo_restaurant_email)
FLC_Matches ==
    {r \in DOMAIN restaurants : Get(restaurants[r], "email", "") = DemoEmail}

\* fix_login_credentials.py main(): the first restaurant with the demo email
\* and its users; nothing when there is none (lines 34-36).
FixLoginCredentials ==
    /\ Len(runs) < MaxRuns
    /\ \/ /\ FLC_Matches = {}
          /\ UNCHANGED <<restaurants, users>>
       \/ \E r \in FLC_Matches :
            /\ restaurants' = [restaurants EXCEPT ![r] = FAC_Restaurant(@)]
            /\ users' = [users EXCEPT ![r] = [u \in DOMAIN @ |-> FAC_User(@[u])]]
    /\ report' = EmptyColl
    /\ UNCHANGED <<global_restaurants, tenants, categories, menu_items, login, initial,
                   order_items, conc, cleanup, orders>>
    /\ Ran("fix_login_credentials")


-----------------------------------------------------------------------------
(* test_login_flow.py *)

\* Line 54: where('email', '==', cred['email'])
RestaurantsByEmail(email) ==
    {r \in DOMAIN restaurants : Get(restaurants[r], "email", "") = email}

\* Lines 73-83: the stored PIN against the hashed input, then against the
\* input itself.
TLF_VerifyPin(pin, stored_pin) ==
    IF stored_pin = hash_password(pin) THEN "pin_ok"
    ELSE IF stored_pin = pin THEN "pin_ok_plain"
    ELSE "pin_failed"

\* Lines 86-89: restaurant_data.get('is_active', True)
TLF_Active(restaurant_data) ==
    IF Get(restaurant_data, "is_active", TRUE) THEN "active" ELSE "inactive"

\* Lines 58-92: what is printed once restaurant r was found, in order.
TLF_Output(r, user_id, pin) ==
    IF user_id \in DOMAIN users[r]
    THEN <<"restaurant_found", "user_found",
           TLF_VerifyPin(pin, Get(users[r][user_id], "pin", <<>>)),
           TLF_Active(restaurants[r])>>
    ELSE <<"restaurant_found", "user_not_found">>

\* A login check that migrates on the way: a PIN matched as plain text is
\* written back hashed.
TestLoginFlow_Migrating ==
    /\ \E email \in LoginEmails, user_id \in LoginUserIds, pin \in LoginPins :
          \/ /\ RestaurantsByEmail(email) = {}
             /\ login' = [script |-> "test_login_flow", at |-> Len(runs),
                          email |-> email, user_id |-> user_id, pin |-> pin,
                          restaurant |-> "", out |-> <<"restaurant_not_found">>]
             /\ UNCHANGED users
          \/ \E r \in RestaurantsByEmail(email) :
                /\ login' = [script |-> "test_login_flow", at |-> Len(runs),
                             email |-> email, user_id |-> user_id, pin |-> pin,
                             restaurant |-> r, out |-> TLF_Output(r, user_id, pin)]
                /\ users' = IF /\ user_id \in DOMAIN users[r]
                               /\ TLF_VerifyPin(pin, Get(users[r][user_id], "pin", <<>>))
                                     = "pin_ok_plain"
                            THEN [users EXCEPT ![r][user_id] =
                                     With(@, "pin", hash_password(pin))]
                            ELSE users
    /\ UNCHANGED <<restaurants, global_restaurants, tenants, categories,
                   menu_items, runs, report, initial,
                   order_items, conc, cleanup, orders>>

\* One pass of the loop of main() over a set of credentials: find the
\* restaurant by email, the user by id, verify the PIN, report activity.
TestLoginFlow ==
    /\ \E email \in LoginEmails, user_id \in LoginUserIds, pin \in LoginPins :
          \/ /\ RestaurantsByEmail(email) = {}
             /\ login' = [script |-> "test_login_flow", at |-> Len(runs),
                          email |-> email, user_id |-> user_id, pin |-> pin,
                          restaurant |-> "", out |-> <<"restaurant_not_found">>]
          \/ \E r \in RestaurantsByEmail(email) :
                login' = [script |-> "test_login_flow", at |-> Len(runs),
                          email |-> email, user_id |-> user_id, pin |-> pin,
                          restaurant |-> r, out |-> TLF_Output(r, user_id, pin)]
    /\ UNCHANGED <<restaurants, global_restaurants, tenants, users, categories,
                   menu_items, runs, report, initial,
                   order_items, conc, cleanup, orders>>

-----------------------------------------------------------------------------
(* test_login_credentials.py *)

\* Lines 58-63: the supplied password against the stored one.
TLC_VerifyPassword(password, stored_password) ==
    IF password = stored_password THEN "password_ok" ELSE "password_mismatch"

\* Lines 65-70: the supplied user id against adminUserId.
TLC_VerifyUserId(user_id, admin_user_id) ==
    IF user_id = admin_user_id THEN "userid_ok" ELSE "userid_mismatch"

\* Lines 87-90: the supplied PIN against the stored one.
TLC_VerifyPin(pin, user_pin) ==
    IF pin = user_pin THEN "pin_ok_plain" ELSE "pin_mismatch"

\* Lines 72-94: the users under tenants/{restaurant.get('id')} whose id field
\* is the supplied user id, and the outcome of the PIN check of each.
TLC_PinResults(restaurant, user_id, pin) ==
    LET tenant_id == Get(restaurant, "id", "")
    IN  IF tenant_id \notin DOMAIN users THEN {}
        ELSE {TLC_VerifyPin(pin, Get(users[tenant_id][u], "pin", <<>>)) :
                u \in {x \in DOMAIN users[tenant_id] :
                         Get(users[tenant_id][x], "id", "") = user_id}}

\* One pass of the loop of main(): find the restaurant by email, compare the
\* admin password and user id, then the PIN of the user in the tenant.
TestLoginCredentials ==
    /\ \E email \in LoginEmails, user_id \in LoginUserIds,
          password \in LoginPasswords, pin \in LoginPins :
          \/ /\ RestaurantsByEmail(email) = {}
             /\ login' = [script |-> "test_login_credentials", at |-> Len(runs),
                          email |-> email, user_id |-> user_id,
                          password |-> password, pin |-> pin, restaurant |-> "",
                          out |-> <<"restaurant_not_found">>, pins |-> {}]
          \/ \E r \in RestaurantsByEmail(email) :
                login' = [script |-> "test_login_credentials", at |-> Len(runs),
                          email |-> email, user_id |-> user_id,
                          password |-> password, pin |-> pin, restaurant |-> r,
                          out |-> <<"restaurant_found",
                                    TLC_VerifyPassword(password,
                                        Get(restaurants[r], "adminPassword", <<>>)),
                                    TLC_VerifyUserId(user_id,
                                        Get(restaurants[r], "adminUserId", ""))>>,
                          pins |-> TLC_PinResults(restaurants[r], user_id, pin)]
    /\ UNCHANGED <<restaurants, global_restaurants, tenants, users, categories,
                   menu_items, runs, report, initial,
                   order_items, conc, cleanup, orders>>

-----------------------------------------------------------------------------
(* A store call that raises in the middle of a fix script *)

\* The script stopped at restaurant f: the history notes the run, whether it
\* changed the store, and where the exception was raised.
Raised(script, f) ==
    runs' = Append(runs, [script |-> script, changed |-> (storeVars' # storeVars),
                          raised |-> f])

\* fix_password_hashing.py main(), where the write of restaurant f (line 50)
\* raises: the loop has no try/except, so the restaurants that the stream
\* yielded before f (done) are rewritten and the script ends there.
FixPasswordHashingRaises ==
    \E f \in DOMAIN restaurants : \E done \in SUBSET (DOMAIN restaurants \ {f}) :
        /\ restaurants' = [r \in DOMAIN restaurants |->
                              IF r \in done THEN FPH_Restaurant(restaurants[r])
                              ELSE restaurants[r]]
        /\ users' = [t \in DOMAIN users |->
                        IF t \in done
                        THEN [u \in DOMAIN users[t] |-> FPH_User(users[t][u])]
                        ELSE users[t]]
        /\ report' = [r \in done |-> FPH_Report(r)]
        /\ UNCHANGED <<global_restaurants, tenants, categories, menu_items, login,
                       initial,
                   order_items, conc, cleanup, orders>>
        /\ Raised("fix_password_hashing", f)

\* fix_restaurant_credentials.py main(), where the read of the tenant of
\* restaurant f (line 49) raises: the only try/except is around main()
\* (lines 151-155), so the script prints the error and exits with status 1.
FixRestaurantCredentialsRaises ==
    \E f \in DOMAIN restaurants : \E done \in SUBSET (DOMAIN restaurants \ {f}) :
        /\ tenants' = [t \in (DOMAIN tenants) \cup done |->
                          IF t \in DOMAIN tenants THEN tenants[t]
                          ELSE TenantDoc(t, ServerTimestamp)]
        /\ users' = [t \in DOMAIN users |->
                        IF t \in done THEN FRC_Users(t) ELSE users[t]]
        /\ categories' = [t \in DOMAIN categories |->
                             IF t \in done /\ FRC_TenantMissing(t)
                             THEN FRC_Categories @@ categories[t] ELSE categories[t]]
        /\ menu_items' = [t \in DOMAIN menu_items |->
                             IF t \in done /\ FRC_TenantMissing(t)
                             THEN FRC_MenuItems @@ menu_items[t] ELSE menu_items[t]]
        /\ report' = [r \in done |-> FRC_Report(r)]
        /\ UNCHANGED <<restaurants, global_restaurants, login, initial,
                   order_items, conc, cleanup, orders>>
        /\ Raised("fix_restaurant_credentials", f)

-----------------------------------------------------------------------------
(* verify_restaurant_sync.py *)

\* Lines 82 and 98: where('email', '==', email.lower()) on a collection.
VRS_Matches(coll, email) ==
    {r \in DOMAIN coll : Get(coll[r], "email", "") = Lower(email)}

\* search_restaurant_by_email(): the first match in restaurants (limit(1)),
\* else the first match in global_restaurants, else (None, None).
SearchRestaurantByEmail ==
    /\ \E email \in LoginEmails :
          \/ \E r \in VRS_Matches(restaurants, email) :
                login' = [script |-> "verify_restaurant_sync", at |-> Len(runs),
                          email |-> email, restaurant |-> r,
                          out |-> <<"found_in_restaurants">>]
          \/ /\ VRS_Matches(restaurants, email) = {}
             /\ \E r \in VRS_Matches(global_restaurants, email) :
                   login' = [script |-> "verify_restaurant_sync", at |-> Len(runs),
                             email |-> email, restaurant |-> r,
                             out |-> <<"not_in_restaurants", "found_in_global">>]
          \/ /\ VRS_Matches(restaurants, email) = {}
             /\ VRS_Matches(global_restaurants, email) = {}
             /\ login' = [script |-> "verify_restaurant_sync", at |-> Len(runs),
                          email |-> email, restaurant |-> "",
                          out |-> <<"not_in_restaurants", "not_in_global">>]
    /\ UNCHANGED <<restaurants, global_restaurants, tenants, users, categories,
                   menu_items, runs, report, initial,
                   order_items, conc, cleanup, orders>>

\* uuid.uuid4(): an id that no document of the store carries yet.
UuidIds == <<"uuid-1", "uuid-2">>
UsedIds == (DOMAIN restaurants) \cup (DOMAIN global_restaurants) \cup (DOMAIN tenants)
              \cup {t \in DOMAIN users : users[t] # EmptyColl}
FreshUuid == IF UuidIds[1] \notin UsedIds THEN UuidIds[1] ELSE UuidIds[2]

\* Lines 125-137: the restaurant document of create_test_restaurant().
VRS_RestaurantData(restaurant_id, email, admin_user, admin_password, now) ==
    [id |-> restaurant_id, name |-> "Test", email |-> Lower(email),
     adminUserId |-> admin_user, adminPassword |-> admin_password,
     createdAt |-> now, updatedAt |-> now]

\* Lines 153-162: its admin user, whose pin is the admin password as given.
VRS_AdminUserData(restaurant_id, admin_user, admin_password, now) ==
    [id |-> admin_user, name |-> "Admin", pin |-> admin_password, role |-> "admin",
     is_active |-> TRUE, created_at |-> now, updated_at |-> now,
     restaurant_id |-> restaurant_id]

\* What the operator types at the prompt of option 3.
TypedEmails == {RestEmailTyped, DemoEmail}

\* create_test_restaurant(): a new id, the restaurant document, its copy in
\* global_restaurants, and the admin user under the tenant id.  No document
\* is looked up first.
CreateTestRestaurant ==
    /\ FreshUuid \notin UsedIds
    /\ \E email \in TypedEmails :
          LET id == FreshUuid
              data == VRS_RestaurantData(id, email, "admin", S_test123, ServerTimestamp)
          IN  /\ restaurants' = SetDoc(restaurants, id, data)
              /\ global_restaurants' = SetDoc(global_restaurants, id, data)
              /\ users' = [users EXCEPT ![id] =
                              SetDoc(@, "admin",
                                     VRS_AdminUserData(id, "admin", S_test123,
                                                       ServerTimestamp))]
    /\ report' = EmptyColl
    /\ UNCHANGED <<tenants, categories, menu_items, orders, login, initial,
                   order_items, conc, cleanup>>
    /\ Ran("create_test_restaurant")

\* create_test_restaurant(), where the write to global_restaurants (line 146)
\* raises: the restaurant document is in place, the except clause (lines
\* 173-175) prints the error and returns None.
CreateTestRestaurantRaises ==
    /\ FreshUuid \notin UsedIds
    /\ \E email \in TypedEmails :
          restaurants' = SetDoc(restaurants, FreshUuid,
                                VRS_RestaurantData(FreshUuid, email, "admin", S_test123,
                                                   ServerTimestamp))
    /\ report' = EmptyColl
    /\ UNCHANGED <<global_restaurants, tenants, users, categories, menu_items, orders,
                   login, initial,
                   order_items, conc, cleanup>>
    /\ Raised("create_test_restaurant", FreshUuid)

-----------------------------------------------------------------------------
(* force_firebase_auth_setup.py *)

\* create_restaurant_data(): of the five restaurants, the first two.
FFAS_Restaurants ==
    ("demo-restaurant" :>
        [id |-> "demo-restaurant", name |-> "Demo Restaurant", email |-> DemoEmail,
         adminUserId |-> "admin", adminPassword |-> S_admin123])
    @@ ("test-restaurant-1" :>
        [id |-> "test-restaurant-1", name |-> "Test Restaurant One",
         email |-> "test1@restaurant.com",
         adminUserId |-> "admin1", adminPassword |-> S_admin123])

\* Lines 187-200 and 204-217: the document written to restaurants and to
\* global_restaurants.
FFAS_RestaurantDoc(restaurant, now) ==
    Merge(restaurant, [createdAt |-> now, updatedAt |-> now, isActive |-> TRUE])

\* Lines 237-245: a user document.
FFAS_UserDoc(id, name, role, pin, now) ==
    [id |-> id, name |-> name, role |-> role, pin |-> pin, is_active |-> TRUE,
     created_at |-> now, updated_at |-> now]

\* create_user_data(): the users of the two restaurants, by restaurant id.
FFAS_Users(now) ==
    ("demo-restaurant" :>
        (("admin" :> FFAS_UserDoc("admin", "Admin User", "admin", S_1234, now))
         @@ ("cashier1" :> FFAS_UserDoc("cashier1", "Cashier One", "cashier", S_1111, now))
         @@ ("manager1" :> FFAS_UserDoc("manager1", "Manager One", "manager", S_2222, now))
         @@ ("waiter1" :> FFAS_UserDoc("waiter1", "Waiter One", "waiter", S_3333, now))))
    @@ ("test-restaurant-1" :>
        (("admin1" :> FFAS_UserDoc("admin1", "Admin User", "admin", S_1234, now))
         @@ ("cashier1" :> FFAS_UserDoc("cashier1", "Cashier One", "cashier", S_1111, now))
         @@ ("manager1" :> FFAS_UserDoc("manager1", "Manager One", "manager", S_2222, now))))

\* create_sample_data(): the categories and menu items, by document id.
FFAS_Categories(now) ==
    [c \in {"appetizers", "main-course", "desserts", "beverages", "pizza", "sushi"} |->
        [id |-> c, created_at |-> now, updated_at |-> now]]

FFAS_MenuItems(now) ==
    [i \in {"bruschetta", "margherita-pizza", "chicken-alfredo", "tiramisu",
            "iced-latte", "pepperoni-pizza", "veggie-pizza", "hawaiian-pizza",
            "california-roll", "salmon-nigiri", "dragon-roll"} |->
        [id |-> i, is_active |-> TRUE, created_at |-> now, updated_at |-> now]]

\* Lines 277-303: the sample order of a restaurant, under the id the code
\* derives from the restaurant id.
FFAS_Orders(restaurant_id, now) ==
    restaurant_id :> [id |-> restaurant_id, status |-> "completed",
                      created_at |-> now, updated_at |-> now]

\* setup_firebase_data(): for every restaurant of the list, the restaurant
\* document, its copy in global_restaurants, and under the tenant id the
\* users, categories, menu items and one order.  No tenants/{id} document.
SetupFirebaseData ==
    LET now == ServerTimestamp
        ids == DOMAIN FFAS_Restaurants
    IN  /\ restaurants' =
              [r \in ids |-> FFAS_RestaurantDoc(FFAS_Restaurants[r], now)] @@ restaurants
        /\ global_restaurants' =
              [r \in ids |-> FFAS_RestaurantDoc(FFAS_Restaurants[r], now)]
                 @@ global_restaurants
        /\ users' = [t \in DOMAIN users |->
                        IF t \in ids THEN FFAS_Users(now)[t] @@ users[t] ELSE users[t]]
        /\ categories' = [t \in DOMAIN categories |->
                             IF t \in ids THEN FFAS_Categories(now) @@ categories[t]
                             ELSE categories[t]]
        /\ menu_items' = [t \in DOMAIN menu_items |->
                             IF t \in ids THEN FFAS_MenuItems(now) @@ menu_items[t]
                             ELSE menu_items[t]]
        /\ orders' = [t \in DOMAIN orders |->
                         IF t \in ids THEN FFAS_Orders(t, now) @@ orders[t]
                         ELSE orders[t]]
        /\ report' = EmptyColl
        /\ UNCHANGED <<tenants, login, initial,
                   order_items, conc, cleanup>>
        /\ Ran("force_firebase_auth_setup")

\* setup_firebase_data(), where the write of the first restaurant to
\* global_restaurants (line 204) raises: its restaurants document is in
\* place, main() prints the error and raises it again (lines 329-331).
SetupFirebaseDataRaises ==
    /\ restaurants' = SetDoc(restaurants, "demo-restaurant",
                             FFAS_RestaurantDoc(FFAS_Restaurants["demo-restaurant"],
                                                ServerTimestamp))
    /\ report' = EmptyColl
    /\ UNCHANGED <<global_restaurants, tenants, users, categories, menu_items, orders,
                   login, initial,
                   order_items, conc, cleanup>>
    /\ Raised("force_firebase_auth_setup", "demo-restaurant")

-----------------------------------------------------------------------------
(* fix_varun_tenant.py *)

VarunTenantId == "98213ca9-90b3-4f77-8aa1-488c0cbbd9b6"

\* fix_varun_tenant(): the tenant document is written under the fixed id;
\* the collection restaurants is not read.
FixVarunTenant ==
    /\ tenants' = SetDoc(tenants, VarunTenantId,
                         [id |-> VarunTenantId, name |-> "Test Restaurant",
                          email |-> "varun.kan@gmail.com",
                          created_at |-> ServerTimestamp,
                          updated_at |-> ServerTimestamp, is_active |-> TRUE])
    /\ report' = EmptyColl
    /\ UNCHANGED <<restaurants, global_restaurants, users, categories, menu_items,
                   orders, login, initial,
                   order_items, conc, cleanup>>
    /\ Ran("fix_varun_tenant")

-----------------------------------------------------------------------------
(* Specifications *)

\* The repair pass of the specification (repairAll) is carried out by two
\* scripts: fix_restaurant_credentials.py completes the tenant structure and
\* fix_password_hashing.py migrates the credentials.
RepairScripts == {"fix_restaurant_credentials", "fix_password_hashing"}

Next ==
    \/ FixPasswordHashing
    \/ FixRestaurantCredentials

Spec == Init /\ [][Next]_vars

\* The three scripts that between them perform the steps of a repair pass:
\* tenant structure, credential migration, and the index entry and PIN
\* migration of fix_login_data_consistency.py.
NextRepair ==
    \/ FixPasswordHashing
    \/ FixRestaurantCredentials
    \/ FixLoginDataConsistency

SpecRepair == Init /\ [][NextRepair]_vars

\* Every fix script of the repository, in any order.
NextFix ==
    \/ Len(runs) < MaxFixRuns /\ FixPasswordHashing
    \/ Len(runs) < MaxFixRuns /\ FixRestaurantCredentials
    \/ Len(runs) < MaxFixRuns /\ FixLoginDataConsistency
    \/ Len(runs) < MaxFixRuns /\ FixAllCredentials
    \/ Len(runs) < MaxFixRuns /\ FixLoginCredentials

SpecFix == Init /\ [][NextFix]_vars

\* Any sequence of repair scripts, then one login check: a check writes
\* nothing, so what a later check finds is what it would find in its place.
NextLogin ==
    \/ login = NoLogin /\ FixPasswordHashing
    \/ login = NoLogin /\ FixRestaurantCredentials
    \/ login = NoLogin /\ TestLoginFlow
    \/ login = NoLogin /\ TestLoginCredentials
    \/ login = NoLogin /\ SearchRestaurantByEmail

SpecLogin == InitLogin /\ [][NextLogin]_vars

\* The two repair scripts, each of which may be stopped by a store call that
\* raises.
NextFail ==
    \/ Len(runs) < MaxFailRuns /\ FixPasswordHashing
    \/ Len(runs) < MaxFailRuns /\ FixRestaurantCredentials
    \/ Len(runs) < MaxFailRuns /\ FixPasswordHashingRaises
    \/ Len(runs) < MaxFailRuns /\ FixRestaurantCredentialsRaises

SpecFail == Init /\ [][NextFail]_vars

\* From the empty store: provisioning, seeding and repair in any order.
ProvisionTenantIds ==
    {DemoId, VarunTenantId, UuidIds[1], UuidIds[2]} \cup DOMAIN FFAS_Restaurants

InitProvision ==
    /\ restaurants = EmptyColl
    /\ global_restaurants = EmptyColl
    /\ tenants = EmptyColl
    /\ users = [t \in ProvisionTenantIds |-> EmptyColl]
    /\ categories = [t \in ProvisionTenantIds |-> EmptyColl]
    /\ menu_items = [t \in ProvisionTenantIds |-> EmptyColl]
    /\ orders = [t \in ProvisionTenantIds |-> EmptyColl]
    /\ order_items = EmptyColl
    /\ InitHistory

NextProvision ==
    \/ Len(runs) < MaxProvisionRuns /\ SetupFirebaseData
    \/ Len(runs) < MaxProvisionRuns /\ SetupFirebaseDataRaises
    \/ Len(runs) < MaxProvisionRuns /\ CreateTestRestaurant
    \/ Len(runs) < MaxProvisionRuns /\ CreateTestRestaurantRaises
    \/ Len(runs) < MaxProvisionRuns /\ FixLoginDataConsistency
    \/ Len(runs) < MaxProvisionRuns /\ FixRestaurantCredentials
    \/ Len(runs) < MaxProvisionRuns /\ FixPasswordHashing
    \/ Len(runs) < MaxProvisionRuns /\ FixVarunTenant

SpecProvision == InitProvision /\ [][NextProvision]_vars

-----------------------------------------------------------------------------
(* test_registration_with_firebase.py and test_registration_process.py *)

\* f"test-restaurant-{int(time.time())}" (test_registration_with_firebase.py
\* line 53) and the fixed id of test_registration_process.py.
TestTimeId == "test-restaurant-1700000000"
TestFixedId == "test-restaurant-123"
CleanupTenantIds == {TestTimeId, TestFixedId}

\* document(id).delete(): no error when the document is absent.
DeleteDoc(coll, id) == [d \in (DOMAIN coll) \ {id} |-> coll[d]]

\* The subcollections both cleanup_test_data functions walk, in their order.
Subcollections == <<"users", "categories", "menu_items", "orders">>

SubcollectionDocs(name, t) ==
    DOMAIN (CASE name = "users" -> users[t]
              [] name = "categories" -> categories[t]
              [] name = "menu_items" -> menu_items[t]
              [] name = "orders" -> orders[t])

\* test_registration_process(): restaurant and index documents, then the
\* admin user, four categories and four menu items under the tenant id.  No
\* tenants/{id} document and no order is written.
TRWF_RestaurantData(now) ==
    [id |-> TestTimeId, email |-> "test-registration@restaurant.com",
     adminUserId |-> "admin", adminPassword |-> S_test123,
     createdAt |-> now, updatedAt |-> now, isActive |-> TRUE]

TRWF_AdminUser(now) ==
    [id |-> "admin", role |-> "admin", pin |-> S_1234, isActive |-> TRUE,
     adminPanelAccess |-> TRUE, createdAt |-> now]

TRWF_Categories ==
    [c \in {"appetizers", "main-course", "desserts", "beverages"} |->
        [id |-> c, isActive |-> TRUE]]

TRWF_MenuItems ==
    [i \in {"bruschetta", "pizza", "tiramisu", "latte"} |-> [id |-> i, isActive |-> TRUE]]

TestRegistrationProcess ==
    LET now == ServerTimestamp
    IN  /\ cleanup = NoCleanup
        /\ restaurants' = SetDoc(restaurants, TestTimeId, TRWF_RestaurantData(now))
        /\ global_restaurants' =
              SetDoc(global_restaurants, TestTimeId, TRWF_RestaurantData(now))
        /\ users' = [users EXCEPT ![TestTimeId] = SetDoc(@, "admin", TRWF_AdminUser(now))]
        /\ categories' = [categories EXCEPT ![TestTimeId] = TRWF_Categories @@ @]
        /\ menu_items' = [menu_items EXCEPT ![TestTimeId] = TRWF_MenuItems @@ @]
        /\ report' = EmptyColl
        /\ UNCHANGED <<tenants, orders, login, initial,
                   order_items, conc, cleanup>>
        /\ Ran("test_registration_with_firebase")

\* test_restaurant_creation(): restaurant, index and tenants/{id} documents
\* under the fixed id, then the admin user, categories and menu items.
TRP_AdminUser(now) ==
    [id |-> "admin", role |-> "admin", pin |-> S_1234, created_at |-> now,
     status |-> "active"]

TRP_Categories(now) ==
    [c \in {"cat_1", "cat_2", "cat_3", "cat_4"} |->
        [id |-> c, created_at |-> now, status |-> "active"]]

TRP_MenuItems(now) ==
    [i \in {"item_1", "item_2", "item_3", "item_4"} |->
        [id |-> i, created_at |-> now, status |-> "active"]]

TestRestaurantCreation ==
    LET now == ServerTimestamp
    IN  /\ cleanup = NoCleanup
        /\ restaurants' = SetDoc(restaurants, TestFixedId,
                                 [email |-> "test@restaurant.com", created_at |-> now,
                                  status |-> "active"])
        /\ global_restaurants' =
              SetDoc(global_restaurants, TestFixedId,
                     [restaurant_id |-> TestFixedId, email |-> "test@restaurant.com",
                      created_at |-> now, status |-> "active"])
        /\ tenants' = SetDoc(tenants, TestFixedId,
                             [restaurant_id |-> TestFixedId, created_at |-> now,
                              status |-> "active"])
        /\ users' = [users EXCEPT ![TestFixedId] = SetDoc(@, "admin", TRP_AdminUser(now))]
        /\ categories' = [categories EXCEPT ![TestFixedId] = TRP_Categories(now) @@ @]
        /\ menu_items' = [menu_items EXCEPT ![TestFixedId] = TRP_MenuItems(now) @@ @]
        /\ report' = EmptyColl
        /\ UNCHANGED <<orders, login, initial,
                   order_items, conc, cleanup>>
        /\ Ran("test_registration_process")

\* A cleanup_test_data call in progress: its script, the id it cleans, the
\* write it is about to make, and the store it found.
Cleaning(script, id, pc, before) ==
    [script |-> script, id |-> id, pc |-> pc, before |-> before]

CTD_At(script, pcs) ==
    /\ cleanup # NoCleanup
    /\ cleanup.script = script
    /\ cleanup.pc \in pcs

CTD_Goto(pc) == cleanup' = [cleanup EXCEPT !.pc = pc]

\* cleanup_test_data returned: the history notes whether the store it leaves
\* differs from the store it found.
CTD_Ran ==
    /\ runs' = Append(runs, [script |-> cleanup.script,
                             changed |-> (storeVars' # cleanup.before)])
    /\ cleanup' = NoCleanup

\* doc.reference.delete() on one document of the subcollection being walked.
CTD_DeleteSubDoc(script) ==
    /\ CTD_At(script, {Subcollections[i] : i \in 1..Len(Subcollections)})
    /\ \E d \in SubcollectionDocs(cleanup.pc, cleanup.id) :
          LET t == cleanup.id
              Del(name, coll) ==
                  IF cleanup.pc = name THEN [coll EXCEPT ![t] = DeleteDoc(@, d)] ELSE coll
          IN  /\ users' = Del("users", users)
              /\ categories' = Del("categories", categories)
              /\ menu_items' = Del("menu_items", menu_items)
              /\ orders' = Del("orders", orders)
    /\ UNCHANGED <<restaurants, global_restaurants, tenants, runs, report, login,
                   initial,
                   order_items, conc, cleanup>>

\* The subcollection being walked has no document left: on to the next one,
\* and after the last to the delete of tenants/{id}.
CTD_NextSubcollection(script) ==
    /\ CTD_At(script, {Subcollections[i] : i \in 1..Len(Subcollections)})
    /\ SubcollectionDocs(cleanup.pc, cleanup.id) = {}
    /\ LET i == CHOOSE j \in 1..Len(Subcollections) : Subcollections[j] = cleanup.pc
       IN  CTD_Goto(IF i < Len(Subcollections) THEN Subcollections[i + 1] ELSE "tenants")
    /\ UNCHANGED <<storeVars, runs, report, login, initial,
                   order_items, conc>>

\* test_registration_with_firebase.py cleanup_test_data(restaurant_id), one
\* store write per step, in the order of the code: line 209 the restaurants
\* document, line 210 the global_restaurants document, lines 216-222 the
\* documents of the four subcollections, line 225 tenants/{id}.
CleanupWithFirebaseRestaurant ==
    \E restaurant_id \in CleanupTenantIds :
        /\ cleanup = NoCleanup
        /\ restaurants' = DeleteDoc(restaurants, restaurant_id)
        /\ cleanup' = Cleaning("cleanup_test_registration_with_firebase", restaurant_id,
                               "global_restaurants", storeVars)
        /\ UNCHANGED <<global_restaurants, tenants, users, categories, menu_items,
                       orders, runs, report, login, initial,
                   order_items, conc>>

CleanupWithFirebaseGlobal ==
    /\ CTD_At("cleanup_test_registration_with_firebase", {"global_restaurants"})
    /\ global_restaurants' = DeleteDoc(global_restaurants, cleanup.id)
    /\ CTD_Goto(Subcollections[1])
    /\ UNCHANGED <<restaurants, tenants, users, categories, menu_items, orders, runs,
                   report, login, initial,
                   order_items, conc>>

CleanupWithFirebaseSubDoc == CTD_DeleteSubDoc("cleanup_test_registration_with_firebase")

CleanupWithFirebaseNextSubcollection ==
    CTD_NextSubcollection("cleanup_test_registration_with_firebase")

CleanupWithFirebaseTenant ==
    /\ CTD_At("cleanup_test_registration_with_firebase", {"tenants"})
    /\ tenants' = DeleteDoc(tenants, cleanup.id)
    /\ UNCHANGED <<restaurants, global_restaurants, users, categories, menu_items,
                   orders, report, login, initial,
                   order_items, conc>>
    /\ CTD_Ran

\* test_registration_process.py cleanup_test_data(): when tenants/{test_id}
\* exists, the documents of the four subcollections and then the tenant
\* document; after that the restaurants document when it exists, and the
\* global_restaurants document when it exists.
CleanupProcessStart ==
    /\ cleanup = NoCleanup
    /\ cleanup' = Cleaning("cleanup_test_registration_process", TestFixedId,
                           IF TestFixedId \in DOMAIN tenants
                           THEN Subcollections[1] ELSE "restaurants",
                           storeVars)
    /\ UNCHANGED <<storeVars, runs, report, login, initial,
                   order_items, conc>>

CleanupProcessSubDoc == CTD_DeleteSubDoc("cleanup_test_registration_process")

CleanupProcessNextSubcollection ==
    CTD_NextSubcollection("cleanup_test_registration_process")

CleanupProcessTenant ==
    /\ CTD_At("cleanup_test_registration_process", {"tenants"})
    /\ tenants' = DeleteDoc(tenants, cleanup.id)
    /\ CTD_Goto("restaurants")
    /\ UNCHANGED <<restaurants, global_restaurants, users, categories, menu_items,
                   orders, runs, report, login, initial,
                   order_items, conc>>

CleanupProcessRestaurant ==
    /\ CTD_At("cleanup_test_registration_process", {"restaurants"})
    /\ restaurants' = IF cleanup.id \in DOMAIN restaurants
                      THEN DeleteDoc(restaurants, cleanup.id) ELSE restaurants
    /\ CTD_Goto("global_restaurants")
    /\ UNCHANGED <<global_restaurants, tenants, users, categories, menu_items, orders,
                   runs, report, login, initial,
                   order_items, conc>>

CleanupProcessGlobal ==
    /\ CTD_At("cleanup_test_registration_process", {"global_restaurants"})
    /\ global_restaurants' = IF cleanup.id \in DOMAIN global_restaurants
                             THEN DeleteDoc(global_restaurants, cleanup.id)
                             ELSE global_restaurants
    /\ UNCHANGED <<restaurants, tenants, users, categories, menu_items, orders, report,
                   login, initial,
                   order_items, conc>>
    /\ CTD_Ran

\* From the empty store: the two registration tests and their cleanups.  A
\* cleanup that has started runs to its end before the next script starts.
InitCleanup ==
    /\ restaurants = EmptyColl
    /\ global_restaurants = EmptyColl
    /\ tenants = EmptyColl
    /\ users = [t \in CleanupTenantIds |-> EmptyColl]
    /\ categories = [t \in CleanupTenantIds |-> EmptyColl]
    /\ menu_items = [t \in CleanupTenantIds |-> EmptyColl]
    /\ orders = [t \in CleanupTenantIds |-> EmptyColl]
    /\ order_items = EmptyColl
    /\ InitHistory

NextCleanup ==
    \/ Len(runs) < MaxCleanupRuns /\ TestRegistrationProcess
    \/ Len(runs) < MaxCleanupRuns /\ TestRestaurantCreation
    \/ Len(runs) < MaxCleanupRuns /\ CleanupWithFirebaseRestaurant
    \/ CleanupWithFirebaseGlobal
    \/ CleanupWithFirebaseSubDoc
    \/ CleanupWithFirebaseNextSubcollection
    \/ CleanupWithFirebaseTenant
    \/ Len(runs) < MaxCleanupRuns /\ CleanupProcessStart
    \/ CleanupProcessSubDoc
    \/ CleanupProcessNextSubcollection
    \/ CleanupProcessTenant
    \/ CleanupProcessRestaurant
    \/ CleanupProcessGlobal

SpecCleanup == InitCleanup /\ [][NextCleanup]_vars

-----------------------------------------------------------------------------
(* create_firebase_schema.py and clear_firebase_data.py *)

SchemaId == "demo-restaurant-schema"
SchemaOrderId == "order-schema-test"

\* create_firebase_schema.py lines 78-113: the users, their pins hashed.
CFS_User(id, role, pin) ==
    [id |-> id, role |-> role, pin |-> hash_password(pin), is_active |-> TRUE]

CFS_Users ==
    ("admin" :> CFS_User("admin", "admin", S_1234))
    @@ ("cashier1" :> CFS_User("cashier1", "cashier", S_1111))
    @@ ("manager1" :> CFS_User("manager1", "manager", S_2222))

\* Lines 116-161 and 164-304: the categories and menu items, by document id.
CFS_Categories ==
    [c \in {"cat-appetizers", "cat-main-course", "cat-desserts", "cat-beverages"} |->
        [id |-> c, is_active |-> TRUE]]

CFS_MenuItems ==
    [i \in {"item-bruschetta", "item-pizza", "item-pasta", "item-tiramisu",
            "item-latte"} |-> [id |-> i, is_available |-> TRUE]]

\* Lines 395-424: the items of the sample order, one level below the order.
CFS_OrderItems ==
    [i \in {"item-1", "item-2"} |-> [id |-> i, order_id |-> SchemaOrderId]]

\* main(): the restaurant and its index entry, then users, categories, menu
\* items, an order and the items of that order under tenants/{id}.  The
\* tenants/{id} document itself is never written (tenant_ref is only used to
\* reach its subcollections).  The further subcollections it fills (tables,
\* inventory, customers, ...) are left out: they are written and cleared
\* like the categories.
CreateFirebaseSchema ==
    /\ restaurants' = SetDoc(restaurants, SchemaId,
                             [id |-> SchemaId, email |-> "schema@restaurant.com",
                              admin_user_id |-> "admin",
                              admin_password |-> hash_password(S_admin123),
                              is_active |-> TRUE])
    /\ global_restaurants' = SetDoc(global_restaurants, SchemaId,
                                    [restaurant_id |-> SchemaId,
                                     email |-> "schema@restaurant.com",
                                     status |-> "active"])
    /\ users' = [users EXCEPT ![SchemaId] = CFS_Users @@ @]
    /\ categories' = [categories EXCEPT ![SchemaId] = CFS_Categories @@ @]
    /\ menu_items' = [menu_items EXCEPT ![SchemaId] = CFS_MenuItems @@ @]
    /\ orders' = [orders EXCEPT ![SchemaId] =
                     SetDoc(@, SchemaOrderId, [id |-> SchemaOrderId, status |-> "pending"])]
    /\ order_items' = SetDoc(order_items, <<SchemaId, SchemaOrderId>>,
                             CFS_OrderItems
                                @@ Get(order_items, <<SchemaId, SchemaOrderId>>, EmptyColl))
    /\ report' = EmptyColl
    /\ UNCHANGED <<tenants, login, initial, cleanup, conc>>
    /\ Ran("create_firebase_schema")

\* clear_firebase_data(): for each listed collection, every document that the
\* stream of the collection yields: the documents of its subcollections are
\* deleted (lines 47-52), then the document (line 55).  The stream of
\* 'tenants' yields the tenants/{id} documents that exist; the subcollections
\* of a document in a subcollection are not visited.  The listed top-level
\* collections devices, orders, menu_items, categories and users are written
\* by no script and stay empty.
CFD_Cleared(coll) ==
    [t \in DOMAIN coll |-> IF t \in DOMAIN tenants THEN EmptyColl ELSE coll[t]]

ClearFirebaseData ==
    /\ restaurants' = EmptyColl
    /\ global_restaurants' = EmptyColl
    /\ tenants' = EmptyColl
    /\ users' = CFD_Cleared(users)
    /\ categories' = CFD_Cleared(categories)
    /\ menu_items' = CFD_Cleared(menu_items)
    /\ orders' = CFD_Cleared(orders)
    /\ report' = EmptyColl
    /\ UNCHANGED <<order_items, login, initial, cleanup, conc>>
    /\ Ran("clear_firebase_data")

\* From the empty store: schema creation, a registration test that writes
\* the tenant document, structure repair, and the clearing of the store.
ClearTenantIds == {SchemaId, TestFixedId}

InitClear ==
    /\ restaurants = EmptyColl
    /\ global_restaurants = EmptyColl
    /\ tenants = EmptyColl
    /\ users = [t \in ClearTenantIds |-> EmptyColl]
    /\ categories = [t \in ClearTenantIds |-> EmptyColl]
    /\ menu_items = [t \in ClearTenantIds |-> EmptyColl]
    /\ orders = [t \in ClearTenantIds |-> EmptyColl]
    /\ order_items = EmptyColl
    /\ InitHistory

NextClear ==
    \/ Len(runs) < MaxClearRuns /\ CreateFirebaseSchema
    \/ Len(runs) < MaxClearRuns /\ TestRestaurantCreation
    \/ Len(runs) < MaxClearRuns /\ FixRestaurantCredentials
    \/ Len(runs) < MaxClearRuns /\ ClearFirebaseData

SpecClear == InitClear /\ [][NextClear]_vars

-----------------------------------------------------------------------------
(* Two script runs at the same time *)

\* The scripts are separate programs against one Firestore database and
\* take no lock and open no transaction: every get(), stream() and set()
\* of a run is a step of its own, and the steps of two runs interleave.
\* A run keeps what it has read: snapshot is list(...stream()) of the
\* restaurants (fix_password_hashing.py line 28, fix_restaurant_credentials.py
\* line 35), todo the restaurants its loop has not reached, cur the one it is
\* at, user_docs the users it listed for cur (fix_password_hashing.py line
\* 56) and utodo those it has not yet written back.
ConcScripts == {"fix_password_hashing", "fix_restaurant_credentials"}

ConcStart(script) ==
    [script |-> script, pc |-> "start", snapshot |-> EmptyColl, todo |-> {},
     cur |-> "", user_docs |-> EmptyColl, utodo |-> {}]

ConcAt(p, script, pc) ==
    /\ p \in DOMAIN conc
    /\ conc[p].script = script
    /\ conc[p].pc = pc

\* The loop over the restaurants goes on, or the run has ended.
ConcLoop(todo) == IF todo = {} THEN "done" ELSE "restaurant"

\* The run of process p ends with this step: the history notes it.
ConcRan(p, pc) ==
    runs' = IF pc = "done"
            THEN Append(runs, [script |-> conc[p].script, changed |-> TRUE])
            ELSE runs

ConcFrame == UNCHANGED <<report, login, initial, cleanup, order_items>>

\* fix_password_hashing.py line 28, fix_restaurant_credentials.py line 35.
ConcListRestaurants(p) ==
    /\ p \in DOMAIN conc
    /\ conc[p].pc = "start"
    /\ conc' = [conc EXCEPT ![p] = [@ EXCEPT !.snapshot = restaurants,
                                             !.todo = DOMAIN restaurants,
                                             !.pc = ConcLoop(DOMAIN restaurants)]]
    /\ ConcRan(p, ConcLoop(DOMAIN restaurants))
    /\ UNCHANGED storeVars
    /\ ConcFrame

\* fix_password_hashing.py lines 32-50: the document of the snapshot, its
\* admin password hashed when it looks like plain text, is written back.
ConcFPH_SetRestaurant(p) ==
    /\ ConcAt(p, "fix_password_hashing", "restaurant")
    /\ \E r \in conc[p].todo :
          /\ restaurants' = SetDoc(restaurants, r, FPH_Restaurant(conc[p].snapshot[r]))
          /\ conc' = [conc EXCEPT ![p] = [@ EXCEPT !.cur = r, !.pc = "list_users"]]
    /\ UNCHANGED <<global_restaurants, tenants, users, categories, menu_items, orders,
                   runs>>
    /\ ConcFrame

\* Line 56: user_docs = list(users_ref.stream()).
ConcFPH_ListUsers(p) ==
    /\ ConcAt(p, "fix_password_hashing", "list_users")
    /\ LET r == conc[p].cur
           todo == conc[p].todo \ {r}
           pc == IF DOMAIN users[r] = {} THEN ConcLoop(todo) ELSE "user"
       IN  /\ conc' = [conc EXCEPT ![p] = [@ EXCEPT !.user_docs = users[r],
                                                    !.utodo = DOMAIN users[r],
                                                    !.todo = todo,
                                                    !.pc = pc]]
           /\ ConcRan(p, pc)
    /\ UNCHANGED storeVars
    /\ ConcFrame

\* Lines 58-71: one user document of user_docs, its pin hashed when it looks
\* like plain text, is written back.
ConcFPH_SetUser(p) ==
    /\ ConcAt(p, "fix_password_hashing", "user")
    /\ \E u \in conc[p].utodo :
          LET r == conc[p].cur
              utodo == conc[p].utodo \ {u}
              pc == IF utodo = {} THEN ConcLoop(conc[p].todo) ELSE "user"
          IN  /\ users' = [users EXCEPT
                              ![r] = SetDoc(@, u, FPH_User(conc[p].user_docs[u]))]
              /\ conc' = [conc EXCEPT ![p] = [@ EXCEPT !.utodo = utodo, !.pc = pc]]
              /\ ConcRan(p, pc)
    /\ UNCHANGED <<restaurants, global_restaurants, tenants, categories, menu_items,
                   orders>>
    /\ ConcFrame

\* fix_restaurant_credentials.py lines 41-51: the tenant document is read.
ConcFRC_GetTenant(p) ==
    /\ ConcAt(p, "fix_restaurant_credentials", "restaurant")
    /\ \E r \in conc[p].todo :
          conc' = [conc EXCEPT ![p] = [@ EXCEPT
                      !.cur = r,
                      !.todo = @ \ {r},
                      !.pc = IF r \in DOMAIN tenants THEN "get_admin" ELSE "set_tenant"]]
    /\ UNCHANGED <<storeVars, runs>>
    /\ ConcFrame

\* Lines 55-60: the tenant document is created.
ConcFRC_SetTenant(p) ==
    /\ ConcAt(p, "fix_restaurant_credentials", "set_tenant")
    /\ tenants' = SetDoc(tenants, conc[p].cur, TenantDoc(conc[p].cur, ServerTimestamp))
    /\ conc' = [conc EXCEPT ![p] = [@ EXCEPT !.pc = "set_admin"]]
    /\ UNCHANGED <<restaurants, global_restaurants, users, categories, menu_items,
                   orders, runs>>
    /\ ConcFrame

\* Lines 63-78: the admin user of the missing tenant is written, from the
\* restaurant document of the snapshot.
ConcFRC_SetAdmin(p) ==
    /\ ConcAt(p, "fix_restaurant_credentials", "set_admin")
    /\ LET r == conc[p].cur
           restaurant_data == conc[p].snapshot[r]
       IN  users' = [users EXCEPT
                        ![r] = SetDoc(@, Get(restaurant_data, "adminUserId", "admin"),
                                      FRC_AdminUser(restaurant_data, ServerTimestamp))]
    /\ conc' = [conc EXCEPT ![p] = [@ EXCEPT !.pc = "set_samples"]]
    /\ UNCHANGED <<restaurants, global_restaurants, tenants, categories, menu_items,
                   orders, runs>>
    /\ ConcFrame

\* Lines 81-105: the sample categories and menu items are written; no other
\* step reads or writes them.
ConcFRC_SetSamples(p) ==
    /\ ConcAt(p, "fix_restaurant_credentials", "set_samples")
    /\ LET r == conc[p].cur
           pc == ConcLoop(conc[p].todo)
       IN  /\ categories' = [categories EXCEPT ![r] = FRC_Categories @@ @]
           /\ menu_items' = [menu_items EXCEPT ![r] = FRC_MenuItems @@ @]
           /\ conc' = [conc EXCEPT ![p] = [@ EXCEPT !.pc = pc]]
           /\ ConcRan(p, pc)
    /\ UNCHANGED <<restaurants, global_restaurants, tenants, users, orders>>
    /\ ConcFrame

\* Lines 119-122 and 140-141: the tenant exists; the admin user is read.
ConcFRC_GetAdmin(p) ==
    /\ ConcAt(p, "fix_restaurant_credentials", "get_admin")
    /\ LET r == conc[p].cur
           missing == Get(conc[p].snapshot[r], "adminUserId", "admin")
                         \notin DOMAIN users[r]
           pc == IF missing THEN "set_admin_only" ELSE ConcLoop(conc[p].todo)
       IN  /\ conc' = [conc EXCEPT ![p] = [@ EXCEPT !.pc = pc]]
           /\ ConcRan(p, pc)
    /\ UNCHANGED storeVars
    /\ ConcFrame

\* Lines 124-139: the missing admin user of an existing tenant is written.
ConcFRC_SetAdminOnly(p) ==
    /\ ConcAt(p, "fix_restaurant_credentials", "set_admin_only")
    /\ LET r == conc[p].cur
           restaurant_data == conc[p].snapshot[r]
           pc == ConcLoop(conc[p].todo)
       IN  /\ users' = [users EXCEPT
                           ![r] = SetDoc(@, Get(restaurant_data, "adminUserId", "admin"),
                                         FRC_AdminUser(restaurant_data, ServerTimestamp))]
           /\ conc' = [conc EXCEPT ![p] = [@ EXCEPT !.pc = pc]]
           /\ ConcRan(p, pc)
    /\ UNCHANGED <<restaurants, global_restaurants, tenants, categories, menu_items,
                   orders>>
    /\ ConcFrame

\* The store the two runs find: restaurant rest-1 with a plain or a hashed
\* admin password, with or without its tenant document, with or without an
\* admin user whose pin is plain or hashed, and a cashier; and the demo
\* restaurant, which needs no repair.
ConcProcs == 1..MaxConcRuns

ConcPasswords == {S_test123, hash_password(S_test123)}

ConcUsers ==
    {"cashier1" :> UserDoc("cashier1", "cashier", S_1111)}
    \cup {("admin" :> UserDoc("admin", "admin", pin))
            @@ ("cashier1" :> UserDoc("cashier1", "cashier", S_1111)) :
          pin \in {S_1234, hash_password(S_1234)}}

InitConcurrent ==
    \E password \in ConcPasswords : \E rooted \in BOOLEAN : \E us \in ConcUsers :
    \E scripts \in [ConcProcs -> ConcScripts] :
        /\ restaurants =
              (RestId :> RestaurantDoc(RestId, RestEmail, "admin", password, TRUE))
              @@ (DemoId :> RestaurantDoc(DemoId, DemoEmail, "admin",
                                          hash_password(S_admin123), TRUE))
        /\ global_restaurants = restaurants
        /\ tenants = IF rooted
                     THEN (RestId :> TenantDoc(RestId, 0)) @@ (DemoId :> TenantDoc(DemoId, 0))
                     ELSE (DemoId :> TenantDoc(DemoId, 0))
        /\ users = (RestId :> us)
                   @@ (DemoId :> ("admin" :> UserDoc("admin", "admin",
                                                      hash_password(S_1234))))
        /\ categories = (RestId :> EmptyColl) @@ (DemoId :> EmptyColl)
        /\ menu_items = (RestId :> EmptyColl) @@ (DemoId :> EmptyColl)
        /\ orders = (RestId :> EmptyColl) @@ (DemoId :> EmptyColl)
        /\ order_items = EmptyColl
        /\ runs = <<>>
        /\ report = EmptyColl
        /\ login = NoLogin
        /\ cleanup = NoCleanup
        /\ initial = [restaurants |-> restaurants, tenants |-> tenants, users |-> users]
        /\ conc = [p \in ConcProcs |-> ConcStart(scripts[p])]

NextConcurrent ==
    \E p \in ConcProcs :
        \/ ConcListRestaurants(p)
        \/ ConcFPH_SetRestaurant(p)
        \/ ConcFPH_ListUsers(p)
        \/ ConcFPH_SetUser(p)
        \/ ConcFRC_GetTenant(p)
        \/ ConcFRC_SetTenant(p)
        \/ ConcFRC_SetAdmin(p)
        \/ ConcFRC_SetSamples(p)
        \/ ConcFRC_GetAdmin(p)
        \/ ConcFRC_SetAdminOnly(p)

SpecConcurrent == InitConcurrent /\ [][NextConcurrent]_vars

-----------------------------------------------------------------------------
(* Vocabulary of the claims *)

\* A canonical credential: DigestLen characters, all of the hex alphabet.
Canonical(stored) ==
    /\ Len(stored) = DigestLen
    /\ \A i \in 1..Len(stored) : stored[i] \in HexChars

\* The places a credential is stored: <<"admin", r>> is the adminPassword of
\* restaurant r, <<"pin", t, u>> the pin of user u under tenant t.
AdminSlots(rs) == {<<"admin", r>> : r \in {x \in DOMAIN rs : "adminPassword" \in DOMAIN rs[x]}}
PinSlots(us) ==
    UNION {{<<"pin", t, u>> : u \in {x \in DOMAIN us[t] : "pin" \in DOMAIN us[t][x]}} :
           t \in DOMAIN us}
Slots(rs, us) == AdminSlots(rs) \cup PinSlots(us)
SlotValue(rs, us, slot) ==
    IF slot[1] = "admin" THEN rs[slot[2]].adminPassword ELSE us[slot[2]][slot[3]].pin

StoredCredentials ==
    {SlotValue(restaurants, users, slot) : slot \in Slots(restaurants, users)}

ScriptsRun == {runs[i].script : i \in 1..Len(runs)}
ScriptsRunBefore(i) == {runs[j].script : j \in 1..(i - 1)}

\* A repair pass is complete once both repair scripts have run.
RepairPassDone == RepairScripts \subseteq ScriptsRun

\* The scripts of NextRepair; a full pass has run each of them.
RepairAllScripts == RepairScripts \cup {"fix_login_data_consistency"}
RepairAllDone == RepairAllScripts \subseteq ScriptsRun

-----------------------------------------------------------------------------
(* Claims *)

\* C1: after a full repair pass every stored admin credential and every
\* stored PIN, under every tenant, is canonical.
C1_AllCanonicalAfterRepair ==
    RepairAllDone =>
        \A slot \in Slots(restaurants, users) :
            Canonical(SlotValue(restaurants, users, slot))

\* C2: once a full repair pass is complete, a further run of any of its
\* scripts leaves the store as it found it, and a script that reports per
\* restaurant reports every restaurant Unchanged.
C2_SecondPassChangesNothing ==
    /\ \A i \in 1..Len(runs) :
          (RepairAllScripts \subseteq ScriptsRunBefore(i)
              /\ runs[i].script \in RepairAllScripts)
              => ~runs[i].changed
    /\ (Len(runs) > 0 /\ RepairAllScripts \subseteq ScriptsRunBefore(Len(runs))
            /\ runs[Len(runs)].script \in RepairScripts)
          => /\ DOMAIN report = DOMAIN restaurants
             /\ \A r \in DOMAIN report : report[r] = "Unchanged"

\* C3: a credential that is canonical is left byte-identical by every run of
\* a repair script.
C3_CanonicalNeverAltered ==
    [][\A slot \in Slots(restaurants, users) :
          Canonical(SlotValue(restaurants, users, slot))
              => /\ slot \in Slots(restaurants', users')
                 /\ SlotValue(restaurants', users', slot)
                        = SlotValue(restaurants, users, slot)]_vars

\* C4: a fix script never deletes a stored credential, and the only rewrite
\* it performs is replacing a legacy value p by its digest.
C4_OnlyLegacyToCanonical ==
    [][\A slot \in Slots(restaurants, users) :
          LET old == SlotValue(restaurants, users, slot)
          IN  /\ slot \in Slots(restaurants', users')
              /\ \/ SlotValue(restaurants', users', slot) = old
                 \/ /\ ~Canonical(old)
                    /\ SlotValue(restaurants', users', slot) = hash_password(old)]_vars

\* C6: the scripts treat a stored value as already hashed exactly when it is
\* canonical (DigestLen hex characters); everything else is migrated.
C6_ClassifyIsStructural ==
    \A stored \in StoredCredentials :
        /\ (~LikelyPlainText(stored)) <=> Canonical(stored)
        /\ (~FLDC_PlainPin(stored)) <=> Canonical(stored)

\* C7: the digest of every stored secret is canonical, and neither migration
\* check takes it for plain text.
C7_DigestIsCanonical ==
    \A s \in StoredCredentials :
        LET digest == hash_password(s)
        IN  /\ Canonical(digest)
            /\ ~LikelyPlainText(digest)
            /\ ~FLDC_PlainPin(digest)

\* A digest written by fix_password_hashing is in the store, and the script
\* has run again over it.
C7_Witness ==
    /\ Len(runs) >= 2
    /\ runs[1] = [script |-> "fix_password_hashing", changed |-> TRUE]
    /\ runs[2] = [script |-> "fix_password_hashing", changed |-> FALSE]
    /\ \E r \in DOMAIN restaurants :
          Get(restaurants[r], "adminPassword", <<>>) = hash_password(S_admin123)

-----------------------------------------------------------------------------
(* Claims about the login checks *)

\* The login check was made on the store as it stands.
FreshLogin(script) ==
    /\ login.script = script
    /\ login.at = Len(runs)
    /\ login.restaurant \in DOMAIN restaurants

Printed(line) == \E i \in 1..Len(login.out) : login.out[i] = line

\* verify(secret, stored) of the specification.
SpecVerify(secret, stored) ==
    IF Canonical(stored) THEN hash_password(secret) = stored ELSE secret = stored

\* The PIN the login check read for the user it was given.
StoredPinOfLogin == Get(users[login.restaurant][login.user_id], "pin", <<>>)
StoredPasswordOfLogin == Get(restaurants[login.restaurant], "adminPassword", <<>>)

\* C5: an active restaurant that had a legacy admin credential p and no
\* tenant has, after a repair pass, a tenant root and an admin user u whose
\* pin is the digest of p, and the admin login with (email, u, p) succeeds.
C5_LegacySecretAcceptedAfterRepair ==
    \A r \in DOMAIN initial.restaurants :
        LET before == initial.restaurants[r]
            p == Get(before, "adminPassword", <<>>)
            u == Get(before, "adminUserId", "")
        IN  (/\ Get(before, "isActive", FALSE)
             /\ p # <<>> /\ ~Canonical(p)
             /\ r \notin DOMAIN initial.tenants
             /\ RepairPassDone)
            => /\ r \in DOMAIN tenants
               /\ u \in DOMAIN users[r]
               /\ users[r][u].role = "admin"
               /\ users[r][u].pin = hash_password(p)
               /\ (/\ FreshLogin("test_login_credentials")
                   /\ login.restaurant = r
                   /\ login.user_id = u
                   /\ login.password = p)
                  => (Printed("password_ok") /\ Printed("userid_ok"))

\* C8: a stored credential that is the digest of the supplied secret is
\* accepted by every login check.
C8_OwnDigestAccepted ==
    /\ (FreshLogin("test_login_flow") /\ Printed("user_found")
            /\ StoredPinOfLogin = hash_password(login.pin))
          => (Printed("pin_ok") \/ Printed("pin_ok_plain"))
    /\ (FreshLogin("test_login_credentials")
            /\ StoredPasswordOfLogin = hash_password(login.password))
          => Printed("password_ok")

\* C9: a login check accepts a secret exactly when its digest is the stored
\* canonical value, or it is itself the stored legacy value.
C9_VerifyByClass ==
    /\ (FreshLogin("test_login_flow") /\ Printed("user_found"))
          => ((Printed("pin_ok") \/ Printed("pin_ok_plain"))
                 <=> SpecVerify(login.pin, StoredPinOfLogin))
    /\ FreshLogin("test_login_credentials")
          => (Printed("password_ok")
                 <=> SpecVerify(login.password, StoredPasswordOfLogin))

\* C10: a login check of a restaurant whose isActive is false reports it
\* inactive and reports no successful verification.
C10_InactiveAlwaysRejected ==
    /\ (FreshLogin("test_login_flow")
            /\ ~Get(restaurants[login.restaurant], "isActive", TRUE))
          => /\ Printed("inactive")
             /\ ~Printed("pin_ok") /\ ~Printed("pin_ok_plain")
    /\ (FreshLogin("test_login_credentials")
            /\ ~Get(restaurants[login.restaurant], "isActive", TRUE))
          => /\ ~Printed("password_ok")
             /\ "pin_ok_plain" \notin login.pins

-----------------------------------------------------------------------------
(* Claims about resolution, side effects and the outcome of a login check *)

\* A check by the given script was made on the store as it stands.
LoginMade(script) ==
    /\ login.script = script
    /\ login.at = Len(runs)

\* C11: when more than one restaurant document carries the email, a lookup
\* picks none of them and goes no further; when none carries it, the lookup
\* reports that the restaurant was not found.
C11_AmbiguousEmailRejected ==
    /\ LoginMade("test_login_flow")
          => /\ Cardinality(RestaurantsByEmail(login.email)) > 1
                   => (login.restaurant = "" /\ ~Printed("restaurant_found"))
             /\ RestaurantsByEmail(login.email) = {}
                   => login.out = <<"restaurant_not_found">>
    /\ LoginMade("verify_restaurant_sync")
          => /\ Cardinality(VRS_Matches(restaurants, login.email)) > 1
                   => (login.restaurant = "" /\ ~Printed("found_in_restaurants"))
             /\ (VRS_Matches(restaurants, login.email) = {}
                   /\ VRS_Matches(global_restaurants, login.email) = {})
                   => login.restaurant = ""

\* C12: a login check, whatever it reports, leaves every stored document as
\* it found it.
C12_LoginWritesNothing ==
    [][login' # login => storeVars' = storeVars]_vars

\* A check has matched a PIN stored as plain text, on a store that no script
\* has touched, and the PIN is stored as it was.
C12_Witness ==
    /\ LoginMade("test_login_flow")
    /\ runs = <<>>
    /\ Printed("pin_ok_plain")
    /\ ~Canonical(users[login.restaurant][login.user_id].pin)
    /\ users = initial.users

\* C13: on an active restaurant, an admin login whose user id is not the
\* restaurant's adminUserId is rejected for that and no secret is verified;
\* with the right user id the password is accepted exactly when it verifies
\* against the stored admin credential.
C13_UserIdBeforeSecret ==
    (/\ FreshLogin("test_login_credentials")
     /\ Get(restaurants[login.restaurant], "isActive", FALSE))
        => LET admin_user_id == Get(restaurants[login.restaurant], "adminUserId", "")
           IN  /\ login.user_id # admin_user_id
                     => /\ Printed("userid_mismatch")
                        /\ ~Printed("password_ok")
               /\ login.user_id = admin_user_id
                     => /\ Printed("userid_ok")
                        /\ Printed("password_ok")
                              <=> SpecVerify(login.password, StoredPasswordOfLogin)

\* C14: a PIN login reports a user that does not exist as not found, never
\* accepts the PIN of a user whose isActive is false, and otherwise accepts
\* the PIN exactly when it verifies against the stored PIN.
C14_UserLoginOutcome ==
    /\ FreshLogin("test_login_flow")
          => LET us == users[login.restaurant]
                 accepted == Printed("pin_ok") \/ Printed("pin_ok_plain")
             IN  /\ login.user_id \notin DOMAIN us
                       => (Printed("user_not_found") /\ ~accepted)
                 /\ (login.user_id \in DOMAIN us
                        /\ ~Get(us[login.user_id], "isActive", TRUE))
                       => ~accepted
                 /\ (login.user_id \in DOMAIN us
                        /\ Get(us[login.user_id], "isActive", TRUE))
                       => (accepted <=> SpecVerify(login.pin, StoredPinOfLogin))
    /\ FreshLogin("test_login_credentials")
          => \A u \in DOMAIN users[login.restaurant] :
                (/\ Get(users[login.restaurant][u], "id", "") = login.user_id
                 /\ ~Get(users[login.restaurant][u], "isActive", TRUE))
                    => "pin_ok_plain" \notin login.pins

-----------------------------------------------------------------------------
(* Claims about failures and about the shape of the store *)

\* C15: when the repair of one restaurant raises, that restaurant is reported
\* Failed and every other restaurant is still repaired and reported.
C15_FailureIsolated ==
    (Len(runs) > 0 /\ "raised" \in DOMAIN runs[Len(runs)])
        => LET last == runs[Len(runs)]
           IN  /\ DOMAIN report = DOMAIN restaurants
               /\ report[last.raised] = "Failed"
               /\ \A r \in DOMAIN restaurants \ {last.raised} :
                     /\ report[r] \in {"Repaired", "Unchanged"}
                     /\ last.script = "fix_password_hashing"
                           => ~LikelyPlainText(Get(restaurants[r], "adminPassword", <<>>))
                     /\ last.script = "fix_restaurant_credentials"
                           => r \in DOMAIN tenants

\* C16: no two restaurant documents carry the same email, letter case
\* aside, whatever provisioning, seeding and repair have run.
C16_EmailUnique ==
    \A r1 \in DOMAIN restaurants : \A r2 \in DOMAIN restaurants :
        (r1 # r2 /\ "email" \in DOMAIN restaurants[r1]
                 /\ "email" \in DOMAIN restaurants[r2])
            => Lower(restaurants[r1].email) # Lower(restaurants[r2].email)

\* The last three runs were the three scripts of a repair pass, each run to
\* its end.
RepairPassJustDone ==
    /\ Len(runs) >= 3
    /\ {runs[i].script : i \in (Len(runs) - 2)..Len(runs)} = RepairAllScripts
    /\ \A i \in (Len(runs) - 2)..Len(runs) : "raised" \notin DOMAIN runs[i]

\* C17: after a repair pass every active restaurant has an entry in
\* global_restaurants under its own id, carrying its email.
C17_IndexedAfterRepair ==
    RepairPassJustDone =>
        \A r \in DOMAIN restaurants :
            Get(restaurants[r], "isActive", FALSE)
                => /\ r \in DOMAIN global_restaurants
                   /\ Get(global_restaurants[r], "email", "")
                         = Get(restaurants[r], "email", "")

\* C18: a tenant root document exists only under the id of an existing
\* restaurant, and carries that id.
C18_NoOrphanTenant ==
    \A t \in DOMAIN tenants :
        /\ t \in DOMAIN restaurants
        /\ Get(tenants[t], "id", "") = t

\* Under the tenant of restaurant r there is a user whose id is the
\* restaurant's adminUserId, with role admin and access to the admin panel.
AdminNamed(rs, us, r) ==
    LET u == Get(rs[r], "adminUserId", "")
    IN  /\ r \in DOMAIN us
        /\ u \in DOMAIN us[r]
        /\ Get(us[r][u], "role", "") = "admin"
        /\ Get(us[r][u], "adminPanelAccess", FALSE)

\* C19: a run of fix_restaurant_credentials.py leaves every restaurant with
\* such an admin user, and no fix script takes it away from a restaurant that
\* has one.
C19_AdminUserKept ==
    [][/\ (Len(runs') > Len(runs)
            /\ runs'[Len(runs')].script = "fix_restaurant_credentials")
              => \A r \in DOMAIN restaurants' : AdminNamed(restaurants', users', r)
       /\ \A r \in DOMAIN restaurants :
              AdminNamed(restaurants, users, r) => AdminNamed(restaurants', users', r)]_vars

\* The documents a tenant owns: those of its four subcollections.
OwnedDocs(us, cs, ms, os, t) ==
    {<<"users", d>> : d \in DOMAIN us[t]} \cup {<<"categories", d>> : d \in DOMAIN cs[t]}
    \cup {<<"menu_items", d>> : d \in DOMAIN ms[t]} \cup {<<"orders", d>> : d \in DOMAIN os[t]}

\* C20: a tenant deletion cascades in order.  A step of a cleanup deletes
\* tenants/{id} only when no document is left in the tenant's subcollections,
\* and deletes the restaurants or global_restaurants document only when
\* tenants/{id} is gone and no owned document is left; in no state of a
\* cleanup are both the restaurant and its index entry gone while the tenant
\* still owns documents; and when the cleanup returns, the tenant owns no
\* document and has no tenant document.
C20_DeletionCascadesInOrder ==
    [][(cleanup # NoCleanup \/ cleanup' # NoCleanup) =>
        LET t == IF cleanup # NoCleanup THEN cleanup.id ELSE cleanup'.id
            owned == OwnedDocs(users, categories, menu_items, orders, t)
            owned_after == OwnedDocs(users', categories', menu_items', orders', t)
        IN  /\ (t \in DOMAIN tenants /\ t \notin DOMAIN tenants') => owned = {}
            /\ (\/ t \in DOMAIN restaurants /\ t \notin DOMAIN restaurants'
                \/ t \in DOMAIN global_restaurants /\ t \notin DOMAIN global_restaurants')
                  => (owned = {} /\ t \notin DOMAIN tenants)
            /\ (cleanup' # NoCleanup /\ t \notin DOMAIN restaurants'
                   /\ t \notin DOMAIN global_restaurants')
                  => owned_after = {}
            /\ (cleanup' = NoCleanup) => (owned_after = {} /\ t \notin DOMAIN tenants')]_vars

\* A document without the server timestamps of the run that wrote it.
Untimed(doc) == [f \in (DOMAIN doc) \ {"createdAt", "updatedAt"} |-> doc[f]]

UntimedStore(st) ==
    [restaurants |-> st.restaurants,
     tenants |-> [t \in DOMAIN st.tenants |-> Untimed(st.tenants[t])],
     users |-> [t \in DOMAIN st.users |->
                   [u \in DOMAIN st.users[t] |-> Untimed(st.users[t][u])]]]

\* What one run of fix_password_hashing.py, alone, makes of the restaurants,
\* tenants and users in st.
AloneFPH(st) ==
    [st EXCEPT
        !.restaurants = [r \in DOMAIN st.restaurants |-> FPH_Restaurant(st.restaurants[r])],
        !.users = [t \in DOMAIN st.users |->
                      IF t \in DOMAIN st.restaurants
                      THEN [u \in DOMAIN st.users[t] |-> FPH_User(st.users[t][u])]
                      ELSE st.users[t]]]

\* What one run of fix_restaurant_credentials.py, alone, makes of them.
AloneFRC(st) ==
    [st EXCEPT
        !.tenants = [t \in (DOMAIN st.tenants) \cup (DOMAIN st.restaurants) |->
                        IF t \in DOMAIN st.tenants THEN st.tenants[t]
                        ELSE TenantDoc(t, 0)],
        !.users = [t \in DOMAIN st.users |->
                      IF /\ t \in DOMAIN st.restaurants
                         /\ \/ t \notin DOMAIN st.tenants
                            \/ Get(st.restaurants[t], "adminUserId", "admin")
                                  \notin DOMAIN st.users[t]
                      THEN SetDoc(st.users[t],
                                  Get(st.restaurants[t], "adminUserId", "admin"),
                                  FRC_AdminUser(st.restaurants[t], 0))
                      ELSE st.users[t]]]

Alone(script, st) ==
    IF script = "fix_password_hashing" THEN AloneFPH(st) ELSE AloneFRC(st)

\* The stores the runs of ps leave when they run one after the other, in
\* any order, from st.
RECURSIVE OneAfterTheOther(_, _)
OneAfterTheOther(ps, st) ==
    IF ps = {} THEN {st}
    ELSE UNION {OneAfterTheOther(ps \ {p}, Alone(conc[p].script, st)) : p \in ps}

ConcAllDone == conc # NoConc /\ \A p \in DOMAIN conc : conc[p].pc = "done"

\* The plain-text credentials of the store the runs found.
InitialPlain ==
    {v \in {SlotValue(initial.restaurants, initial.users, s) :
               s \in Slots(initial.restaurants, initial.users)} : ~Canonical(v)}

\* C21: two repair runs whose reads and writes interleave without a lock
\* end in the store that the runs leave without interleaving (timestamps
\* aside): for two runs of one script the store a single run leaves, for
\* runs of the two scripts the store they leave run one after the other.
\* No credential of the final store is the digest of the digest of a plain
\* credential of the initial store.
C21_ConcurrentRunsConverge ==
    ConcAllDone =>
        /\ UntimedStore([restaurants |-> restaurants, tenants |-> tenants,
                         users |-> users])
              \in {UntimedStore(st) : st \in OneAfterTheOther(DOMAIN conc, initial)}
        /\ \A s \in Slots(restaurants, users) : \A p \in InitialPlain :
              SlotValue(restaurants, users, s) # hash_password(hash_password(p))

-----------------------------------------------------------------------------
(* Claims about resolution by email, the course of a login, and repair *)

\* The restaurants whose stored email is the queried one up to letter case.
SameEmailIgnoringCase(email) ==
    {r \in DOMAIN restaurants : Lower(Get(restaurants[r], "email", "")) = Lower(email)}

\* A lookup by email was made on the store as it stands.
LookupMade ==
    /\ login # NoLogin
    /\ login.at = Len(runs)

RejectLines ==
    {"restaurant_not_found", "user_not_found", "pin_failed", "inactive",
     "password_mismatch", "userid_mismatch", "pin_mismatch"}
PassLines == {"pin_ok", "pin_ok_plain", "active", "password_ok", "userid_ok"}

\* Everything a login check printed after its line i, the PIN lines of
\* test_login_credentials.py (lines 77-90) included.
PrintedAfter(i) ==
    {login.out[j] : j \in (i + 1)..Len(login.out)}
        \cup (IF "pins" \in DOMAIN login THEN login.pins ELSE {})

\* C23: a login attempt starts by resolving the restaurant and ends in one
\* outcome.  It is authenticated only when the restaurant was resolved; it
\* is rejected for one reason only, and once a step has rejected it no later
\* step of the attempt reports a verification that passed.
C23_LoginStateMachine ==
    (LoginMade("test_login_flow") \/ LoginMade("test_login_credentials")) =>
        /\ login.out[1] \in {"restaurant_found", "restaurant_not_found"}
        /\ (\A i \in 1..Len(login.out) : login.out[i] \notin RejectLines)
              => login.restaurant \in DOMAIN restaurants
        /\ \A i \in 1..Len(login.out) :
              login.out[i] \in RejectLines
                  => PrintedAfter(i) \cap (PassLines \cup RejectLines) = {}

\* The restaurants that share their email with another restaurant document.
SharedEmail(rs) ==
    {r \in DOMAIN rs :
        \E o \in (DOMAIN rs) \ {r} : Get(rs[o], "email", "") = Get(rs[r], "email", "")}

\* C24: a repair run that finds two restaurant documents with the same email
\* reports both as failed for ambiguous data, and writes neither their
\* restaurant documents nor anything under their tenants.
C24_AmbiguousPairNotRepaired ==
    [][(Len(runs') > Len(runs) /\ runs'[Len(runs')].script \in RepairAllScripts) =>
          \A r \in SharedEmail(restaurants) :
              /\ report'[r] \notin {"Repaired", "Unchanged"}
              /\ restaurants'[r] = restaurants[r]
              /\ (r \in DOMAIN tenants') = (r \in DOMAIN tenants)
              /\ users'[r] = users[r]
              /\ categories'[r] = categories[r]
              /\ menu_items'[r] = menu_items[r]]_vars

\* Restaurant r has a stored admin password and no document for its admin
\* user under its tenant.
AdminUserMissing(rs, us, r) ==
    /\ "adminPassword" \in DOMAIN rs[r]
    /\ Get(rs[r], "adminUserId", "admin") \notin DOMAIN us[r]

\* C25: the admin user that fix_restaurant_credentials creates carries the
\* canonical admin credential of its restaurant: the digest of the stored
\* admin password when that is plain text, and the stored admin password
\* itself when that is a digest already.
C25_CreatedAdminPinCanonical ==
    [][(Len(runs') > Len(runs)
          /\ runs'[Len(runs')].script = "fix_restaurant_credentials") =>
          \A r \in DOMAIN restaurants :
              AdminUserMissing(restaurants, users, r) =>
                  LET stored == restaurants[r].adminPassword
                      created == users'[r][Get(restaurants[r], "adminUserId", "admin")]
                  IN  created.pin = IF Canonical(stored) THEN stored
                                    ELSE hash_password(stored)]_vars

\* C26: fix_restaurant_credentials creates the default categories of a
\* tenant only when the tenant has none.  A tenant that has a category,
\* with or without a tenants/{id} document, keeps every category document
\* as it was and gets no new one.
C26_CategoriesOnlyWhenNone ==
    [][(Len(runs') > Len(runs)
          /\ runs'[Len(runs')].script = "fix_restaurant_credentials") =>
          \A t \in DOMAIN categories :
              categories[t] # EmptyColl => categories'[t] = categories[t]]_vars

\* C27: the index entry and the tenants/{id} document of a restaurant are
\* written before any user or category of its tenant.  In every state, a
\* tenant id that has a user or a category document has its tenants/{id}
\* document, and its restaurant has its global_restaurants entry.
C27_RootBeforeOwnedDocuments ==
    \A t \in DOMAIN users :
        (users[t] # EmptyColl \/ categories[t] # EmptyColl) =>
            /\ t \in DOMAIN tenants
            /\ t \in DOMAIN restaurants => t \in DOMAIN global_restaurants

\* Document after differs from document before in the value of the field
\* credential at most, and not at all when that value was canonical.
OnlyCredentialMigrated(before, after, credential) ==
    /\ DOMAIN after = DOMAIN before
    /\ \A f \in (DOMAIN before) \ {credential} : after[f] = before[f]
    /\ Canonical(Get(before, credential, <<>>)) => after = before

\* The scripts that migrate credentials in place.
MigrationScripts == {"fix_password_hashing", "fix_login_data_consistency"}

\* C28: a credential migration changes the credential field only.  Every
\* restaurant and user document that a run of fix_password_hashing or of the
\* repair loops of fix_login_data_consistency finds (the demo documents that
\* the latter writes afterwards aside) keeps its fields and their values,
\* the migrated credential excepted, and a document whose credential is
\* canonical is left as it was.
C28_MigrationChangesCredentialOnly ==
    [][(Len(runs') > Len(runs) /\ runs'[Len(runs')].script \in MigrationScripts) =>
          /\ \A r \in (DOMAIN restaurants) \ {DemoId} :
                 OnlyCredentialMigrated(restaurants[r], restaurants'[r], "adminPassword")
          /\ \A t \in (DOMAIN users) \ {DemoId} : \A u \in DOMAIN users[t] :
                 OnlyCredentialMigrated(users[t][u], users'[t][u], "pin")]_vars

\* C29: fix_restaurant_credentials writes an admin user document only where
\* none exists.  Every user document that exists before a run, also under a
\* tenant id without tenants/{id} document, is the same document after it.
C29_ExistingUserKept ==
    [][(Len(runs') > Len(runs)
          /\ runs'[Len(runs')].script = "fix_restaurant_credentials") =>
          \A t \in DOMAIN users : \A u \in DOMAIN users[t] :
              users'[t][u] = users[t][u]]_vars

\* Nothing is stored under tenant id t, at any depth.
NothingUnder(us, cs, ms, os, ois, t) ==
    /\ us[t] = EmptyColl
    /\ cs[t] = EmptyColl
    /\ ms[t] = EmptyColl
    /\ os[t] = EmptyColl
    /\ \A k \in DOMAIN ois : k[1] = t => ois[k] = EmptyColl

\* C30: when clear_firebase_data has returned, no document is left in the
\* collections it lists: none in restaurants, global_restaurants and
\* tenants, none in a subcollection of a tenant id, with or without a
\* tenants/{id} document, and none below a document of a subcollection.
C30_ClearLeavesNothing ==
    [][(Len(runs') > Len(runs) /\ runs'[Len(runs')].script = "clear_firebase_data") =>
          /\ restaurants' = EmptyColl
          /\ global_restaurants' = EmptyColl
          /\ tenants' = EmptyColl
          /\ \A t \in DOMAIN users :
                NothingUnder(users', categories', menu_items', orders', order_items', t)]_vars

====
